---- MODULE Spec2Model ----
(***************************************************************************)
(* Model of the zen-match board resolution engine (src/src/engine/index.ts)*)
(* Rows and columns are numbered from 0 as in the source.  A board is a    *)
(* function [0..Rows-1 -> [0..Cols-1 -> Cell]]; the empty slot (null) is   *)
(* the cell Null, whose type -1 equals no gem type.                        *)
(***************************************************************************)
EXTENDS Integers, Sequences, FiniteSets, TLC

\* ------------------------------------------------------------------ bounds
Rows == 5
Cols == 5
GemTypes == 5
MaxCombo == 6
MaxSwaps == 1

\* A loop of the source is a RECURSIVE operator whose parameters are the
\* variables of the loop.  Where the test of a loop has a conjunct x = x, the
\* conjunct is always true: it makes the loop variable x a value before the
\* body runs, and changes nothing the loop computes.

RowIdx == 0 .. (Rows - 1)
ColIdx == 0 .. (Cols - 1)

\* ------------------------------------------------------------------ cells
NONE == "none"
BOMB == "bomb"
LINE == "line"
RAINBOW == "rainbow"

Null == [type |-> -1, special |-> NONE, direction |-> "none"]

Cell(t, s, d) == [type |-> t, special |-> s, direction |-> d]
Plain(t) == Cell(t, NONE, "none")

Pos(r, c) == [r |-> r, c |-> c]

InBounds(r, c) == r \in RowIdx /\ c \in ColIdx

\* board[r]?.[c]: the cell, or Null when the index is outside the board
At(b, r, c) == IF InBounds(r, c) THEN b[r][c] ELSE Null

\* `${r},${c}`: for integers the string determines r and c, so the key is
\* represented by the position it spells
keyFor(r, c) == Pos(r, c)

isSpecial(cell) == cell # Null /\ cell.special # NONE

isRainbow(cell) == cell # Null /\ cell.special = RAINBOW

createEmptyBoard == [r \in RowIdx |-> [c \in ColIdx |-> Null]]

SetCell(b, r, c, cell) == [b EXCEPT ![r][c] = cell]

\* ------------------------------------------------------------------ RNG
\* The 32-bit LCG state is kept as two 16-bit halves so that no intermediate
\* product exceeds 2^31: state = hi * 65536 + lo.
RngSeed(seed) == [hi |-> (seed \div 65536) % 65536, lo |-> seed % 65536]

\* state = (state * 1664525 + 1013904223) >>> 0
\*   1664525 = 25 * 65536 + 26125,  1013904223 = 15470 * 65536 + 62303
RngNext(s) ==
  LET lowFull == s.lo * 26125 + 62303
  IN  [hi |-> (s.hi * 26125 + s.lo * 25 + (lowFull \div 65536) + 15470) % 65536,
       lo |-> lowFull % 65536]

\* Math.floor(state / 2^32 * max), for the already advanced state s
RngValue(s, max) == (s.hi * max + ((s.lo * max) \div 65536)) \div 65536

\* rng.int(max): the drawn value and the state after the draw
RngInt(s, max) == [val |-> RngValue(RngNext(s), max), rng |-> RngNext(s)]

\* ------------------------------------------------------------------ findMatches
\* inner while loop: first index >= endC whose cell does not have this type
RunEndRow(b, r, endC, type) ==
  LET RECURSIVE go(_)
      go(e) == IF e < Cols /\ b[r][e].type = type THEN go(e + 1) ELSE e
  IN  go(endC)

RunEndCol(b, c, endR, type) ==
  LET RECURSIVE go(_)
      go(e) == IF e < Rows /\ b[e][c].type = type THEN go(e + 1) ELSE e
  IN  go(endR)

\* First pass: the cells of horizontal runs of length >= 3, in insertion order
\* (row by row, left to right).  No key is met twice in this pass.  `scan` is
\* the while loop over the columns of one row and `rows` the for loop over the
\* rows; acc = acc is always true and only makes the map a value before the
\* next row is scanned.
HorizontalPass(b) ==
  LET RECURSIVE scan(_, _, _)
      scan(r, c, acc) ==
        IF c >= Cols THEN acc
        ELSE IF b[r][c] = Null THEN scan(r, c + 1, acc)
        ELSE LET type == b[r][c].type
                 endC == RunEndRow(b, r, c + 1, type)
                 len  == endC - c
             IN  IF len >= 3
                 THEN scan(r, endC,
                        acc \o [i \in 1 .. len |->
                                 [r |-> r, c |-> c + i - 1, type |-> type,
                                  matchLen |-> len, direction |-> "horizontal",
                                  isComplex |-> FALSE]])
                 ELSE scan(r, endC, acc)
      RECURSIVE rows(_, _)
      rows(r, acc) == IF r < Rows /\ acc = acc THEN rows(r + 1, scan(r, 0, acc)) ELSE acc
  IN  rows(0, <<>>)

IndexOfKey(cells, r, c) ==
  LET hits == {i \in 1 .. Len(cells) : cells[i].r = r /\ cells[i].c = c}
  IN  IF hits = {} THEN 0 ELSE CHOOSE i \in hits : TRUE

\* Adding the cells r..endR-1 of one vertical run to the map
AddVerticalRun(cells, c, r, endR, type) ==
  LET len == endR - r
      RECURSIVE add(_, _)
      add(i, acc) ==
        IF i >= endR THEN acc
        ELSE LET k == IndexOfKey(acc, i, c)
             IN  IF k = 0
                 THEN add(i + 1, Append(acc,
                        [r |-> i, c |-> c, type |-> type, matchLen |-> len,
                         direction |-> "vertical", isComplex |-> FALSE]))
                 ELSE add(i + 1, [acc EXCEPT ![k].matchLen = @ + len,
                                             ![k].isComplex = TRUE])
  IN  add(r, cells)

\* Second pass: vertical runs, column by column, top to bottom.  `scan` is
\* the while loop over the rows of one column, `cols` the for loop over the
\* columns.
VerticalPass(b, cells0) ==
  LET RECURSIVE scan(_, _, _)
      scan(c, r, acc) ==
        IF r >= Rows THEN acc
        ELSE IF b[r][c] = Null THEN scan(c, r + 1, acc)
        ELSE LET type == b[r][c].type
                 endR == RunEndCol(b, c, r + 1, type)
             IN  IF endR - r >= 3
                 THEN scan(c, endR, AddVerticalRun(acc, c, r, endR, type))
                 ELSE scan(c, endR, acc)
      RECURSIVE cols(_, _)
      cols(c, acc) == IF c < Cols /\ acc = acc THEN cols(c + 1, scan(c, 0, acc)) ELSE acc
  IN  cols(0, cells0)

\* The matchedCells map after both passes, as the sequence of its entries
MatchedCells(b) == VerticalPass(b, HorizontalPass(b))

Neighbors(r, c) == << Pos(r - 1, c), Pos(r + 1, c), Pos(r, c - 1), Pos(r, c + 1) >>

\* The entry of the map for a key known to be in it
Entry(cells, p) == cells[IndexOfKey(cells, p.r, p.c)]

\* The neighbours pushed when the type of the neighbour is not compared
PushedNeighborsAnyType(cells, d, vis) ==
  SelectSeq(Neighbors(d.r, d.c), LAMBDA n :
    /\ IndexOfKey(cells, n.r, n.c) # 0
    /\ n \notin vis)

\* The neighbours pushed on the queue while visiting the entry d
PushedNeighbors(cells, d, vis) ==
  SelectSeq(Neighbors(d.r, d.c), LAMBDA n :
    /\ IndexOfKey(cells, n.r, n.c) # 0
    /\ n \notin vis
    /\ Entry(cells, n).type = d.type)

VisitEntry(g, d) ==
  [g EXCEPT !.positions = Append(@, Pos(d.r, d.c)),
            !.hasComplex = @ \/ d.isComplex,
            !.hDir = @ \/ d.direction = "horizontal",
            !.vDir = @ \/ d.direction = "vertical"]

\* One breadth-first traversal from the entry `start`.  Every key it marks
\* visited is a key of the map, so it is a position of the group.
\* `if (visited.has(key)) continue`: a key already visited is skipped when it
\* is shifted from the queue; `waiting` drops such keys from the queue as soon
\* as they are visited, which visits the same keys in the same order.  The
\* test g = g is always true and only makes the group a value at every step.
BfsGroup(cells, start, visited0) ==
  LET waiting(queue, visited) == SelectSeq(queue, LAMBDA n : n \notin visited)
      RECURSIVE bfs(_, _, _)
      bfs(queue, visited, g) ==
        IF queue # <<>> /\ g = g
        THEN bfs(waiting(Tail(queue) \o
                           PushedNeighbors(cells, Entry(cells, Head(queue)),
                                           visited \cup {Head(queue)}),
                         visited \cup {Head(queue)}),
                 visited \cup {Head(queue)},
                 VisitEntry(g, Entry(cells, Head(queue))))
        ELSE g
  IN  bfs(waiting(<< Pos(start.r, start.c) >>, visited0), visited0,
          [positions |-> <<>>, hasComplex |-> FALSE, hDir |-> FALSE, vDir |-> FALSE])

SetOfPositions(g) == {g.positions[i] : i \in 1 .. Len(g.positions)}

MakeGroup(g, type) ==
  [positions |-> g.positions,
   effectiveLen |-> Len(g.positions),
   isComplex |-> g.hasComplex,
   direction |-> IF g.hDir /\ g.vDir THEN "both"
                 ELSE IF g.hDir THEN "horizontal" ELSE "vertical",
   type |-> type]

\* The grouping loop of findMatches over the entries of matchedCells
GroupCells(cells) ==
  LET RECURSIVE groups(_, _, _)
      groups(i, visited, acc) ==
        IF i > Len(cells) THEN acc
        ELSE IF Pos(cells[i].r, cells[i].c) \in visited THEN groups(i + 1, visited, acc)
        ELSE LET with(g) == groups(i + 1, visited \cup SetOfPositions(g),
                                   Append(acc, MakeGroup(g, cells[i].type)))
             IN  with(BfsGroup(cells, cells[i], visited))
  IN  groups(1, {}, <<>>)

\* findMatches(board, rows, cols): the sequence of match groups
findMatches(b) == GroupCells(MatchedCells(b))

\* ------------------------------------------------------------------ removal sets
\* A JavaScript Set<string> of keys is an insertion-ordered sequence without
\* duplicates; a Map<string, RemovalAnim> is a function on its keys.
SetHas(seq, k) == \E i \in 1 .. Len(seq) : seq[i] = k

SetAdd(seq, k) == IF SetHas(seq, k) THEN seq ELSE Append(seq, k)

SetAddAll(seq, ks) ==
  LET RECURSIVE go(_, _)
      go(i, acc) == IF i <= Len(ks) /\ acc = acc THEN go(i + 1, SetAdd(acc, ks[i])) ELSE acc
  IN  go(1, seq)

SetToSet(seq) == {seq[i] : i \in 1 .. Len(seq)}

MapSet(m, k, v) == [x \in (DOMAIN m) \cup {k} |-> IF x = k THEN v ELSE m[x]]

MapSetAll(m, ks, v) ==
  [x \in (DOMAIN m) \cup SetToSet(ks) |-> IF x \in SetToSet(ks) THEN v ELSE m[x]]

EmptyMap == [x \in {} |-> "matched"]

\* All positions, row by row (for r ... for c ...)
RowMajor == [k \in 1 .. (Rows * Cols) |-> Pos((k - 1) \div Cols, (k - 1) % Cols)]

\* A square one ring smaller
SquareInner(r, c, n) ==
  LET w == 2 * n - 1
      all == [k \in 1 .. (w * w) |-> Pos(r + ((k - 1) \div w) - (n - 1),
                                          c + ((k - 1) % w) - (n - 1))]
  IN  SelectSeq(all, LAMBDA p : InBounds(p.r, p.c))

\* The in-bounds cells of the (2n+1) x (2n+1) square around (r, c), dr outer, dc inner
Square(r, c, n) ==
  LET w == 2 * n + 1
      all == [k \in 1 .. (w * w) |-> Pos(r + ((k - 1) \div w) - n, c + ((k - 1) % w) - n)]
  IN  SelectSeq(all, LAMBDA p : InBounds(p.r, p.c))

RowCells(r) == [i \in 1 .. Cols |-> Pos(r, i - 1)]

ColCells(c) == [i \in 1 .. Rows |-> Pos(i - 1, c)]

CellsOfType(b, type) == SelectSeq(RowMajor, LAMBDA p : b[p.r][p.c].type = type)

\* key.split(',').map(Number) of every key, in the set's insertion order;
\* the set is kept as a duplicate-free sequence of the positions the keys spell
positionsFromSet(toRemove) == toRemove

removePositions(b, toRemove) ==
  [r \in RowIdx |-> [c \in ColIdx |->
     IF SetHas(toRemove, Pos(r, c)) THEN Null ELSE b[r][c]]]

\* ------------------------------------------------------------------ gravity and refill
\* One column of gravity when a cell falls by one row at most
DropColumnOneStep(b, c) ==
  [r \in RowIdx |->
     IF r > 0 /\ b[r][c] = Null /\ b[r - 1][c] # Null THEN b[r - 1][c]
     ELSE IF r < Rows - 1 /\ b[r][c] # Null /\ b[r + 1][c] = Null THEN Null
     ELSE b[r][c]]

\* One column of dropGems: the loop from the bottom row up, which moves an
\* occupied cell to writePos when it is not there already
DropColumn(b, c) ==
  LET RECURSIVE go(_, _, _)
      go(r, writePos, col) ==
        IF r < 0 THEN col
        ELSE IF col[r] = Null THEN go(r - 1, writePos, col)
        ELSE IF writePos # r
        THEN go(r - 1, writePos - 1, [col EXCEPT ![writePos] = col[r], ![r] = Null])
        ELSE go(r - 1, writePos - 1, col)
  IN  go(Rows - 1, Rows - 1, [r \in RowIdx |-> b[r][c]])

dropGemsBoard(b) ==
  LET columns == [c \in ColIdx |-> DropColumn(b, c)]
  IN  [r \in RowIdx |-> [c \in ColIdx |-> columns[c][r]]]

\* dropGems: the board after gravity and whether any cell moved
dropGems(b) ==
  LET after == dropGemsBoard(b)
  IN  [board |-> after, dropped |-> after # b]

\* The refill when only the empty slots of the top row are filled
fillGemsTopRow(b, types, rng0) ==
  LET fill(st, r, c) ==
        IF st.board[r][c] = Null /\ r = 0
        THEN LET d == RngInt(st.rng, types)
             IN  [board |-> SetCell(st.board, r, c, Plain(d.val)), rng |-> d.rng,
                  filled |-> TRUE]
        ELSE st
      RECURSIVE col(_, _, _)
      col(c, r, st) == IF r < Rows /\ st = st THEN col(c, r + 1, fill(st, r, c)) ELSE st
      RECURSIVE cols(_, _)
      cols(c, st) == IF c < Cols /\ st = st THEN cols(c + 1, col(c, 0, st)) ELSE st
  IN  cols(0, [board |-> b, rng |-> rng0, filled |-> FALSE])

\* fillGems: every empty slot, column by column from the top, gets rng.int(gemTypes)
fillGems(b, types, rng0) ==
  LET fill(st, r, c) ==
        IF st.board[r][c] = Null
        THEN LET d == RngInt(st.rng, types)
             IN  [board |-> SetCell(st.board, r, c, Plain(d.val)), rng |-> d.rng,
                  filled |-> TRUE]
        ELSE st
      RECURSIVE col(_, _, _)
      col(c, r, st) == IF r < Rows /\ st = st THEN col(c, r + 1, fill(st, r, c)) ELSE st
      RECURSIVE cols(_, _)
      cols(c, st) == IF c < Cols /\ st = st THEN cols(c + 1, col(c, 0, st)) ELSE st
  IN  cols(0, [board |-> b, rng |-> rng0, filled |-> FALSE])

\* ------------------------------------------------------------------ chain activation
MaxIterations == 20
BombBonus == 150
LineBonus == 200
RainbowBonus == 500

Explosion(r, c) == [kind |-> "explosion", r |-> r, c |-> c]
LineEffect(dir, idx) == [kind |-> "line", direction |-> dir, index |-> idx]

\* Adds the targets not yet in toRemove; `added` are the new keys in order.
AddTargets(st, targets, anim) ==
  LET added == SelectSeq(targets, LAMBDA p : ~SetHas(st.toRemove, p))
  IN  [st EXCEPT !.toRemove = @ \o added,
                 !.anims = MapSetAll(@, added, anim),
                 !.stepPositions = @ \o added,
                 !.stepAnims = MapSetAll(@, added, anim),
                 !.found = @ \/ added # <<>>]

\* The effect of one special: bomb, line, rainbow
BombEffect(st, key) ==
  LET with(a) == [a EXCEPT !.anims = MapSet(@, key, "exploding"),
                           !.bonusPoints = @ + BombBonus]
  IN  with(AddTargets([st EXCEPT !.effects = Append(@, Explosion(key.r, key.c)),
                                 !.stepEffects = Append(@, Explosion(key.r, key.c))],
                      Square(key.r, key.c, 1), "exploding"))

LineSweep(st, cells, effect) ==
  LET with(a) == [a EXCEPT !.effects = Append(@, effect),
                           !.stepEffects = Append(@, effect)]
  IN  with(AddTargets(st, cells, "line-cleared"))

LineEffectOn(st, key, dir) ==
  LET vertical(h) ==
        IF dir \in {"vertical", "cross"}
        THEN LineSweep(h, ColCells(key.c), LineEffect("vertical", key.c)) ELSE h
      finish(v) == [v EXCEPT !.anims = MapSet(@, key, "line-cleared"),
                             !.bonusPoints = @ + LineBonus]
  IN  finish(vertical(
        IF dir \in {"horizontal", "cross"}
        THEN LineSweep(st, RowCells(key.r), LineEffect("horizontal", key.r)) ELSE st))

RainbowEffect(b, st, key, type) ==
  LET with(a) == [a EXCEPT !.anims = MapSet(@, key, "rainbow-cleared"),
                           !.bonusPoints = @ + RainbowBonus]
  IN  with(AddTargets(st, CellsOfType(b, type), "rainbow-cleared"))

RecordSubStep(done, key) ==
  IF done.stepPositions # <<>>
  THEN [done EXCEPT !.subSteps = Append(@,
          [triggerPos |-> key, positions |-> done.stepPositions,
           animations |-> done.stepAnims, effects |-> done.stepEffects])]
  ELSE done

BeginStep(st0, key) ==
  [st0 EXCEPT !.processed = @ \cup {key},
              !.chainCount = @ + 1,
              !.stepPositions = <<>>,
              !.stepAnims = EmptyMap,
              !.stepEffects = <<>>]

\* The body of the loop when a special already activated is activated again
ActivateOneAgain(b, st0, key) ==
  LET gem == At(b, key.r, key.c)
  IN  IF gem = Null \/ gem.special = NONE THEN st0
      ELSE IF gem.special = BOMB THEN RecordSubStep(BombEffect(BeginStep(st0, key), key), key)
      ELSE IF gem.special = LINE THEN
        RecordSubStep(LineEffectOn(BeginStep(st0, key), key,
                        IF gem.direction = "none" THEN "horizontal" ELSE gem.direction), key)
      ELSE RecordSubStep(RainbowEffect(b, BeginStep(st0, key), key, gem.type), key)

\* The body of the for loop for one key of the snapshot
ActivateOne(b, st0, key) ==
  LET gem == At(b, key.r, key.c)
  IN  IF gem = Null \/ gem.special = NONE THEN st0
      ELSE IF key \in st0.processed THEN st0
      ELSE IF gem.special = BOMB THEN RecordSubStep(BombEffect(BeginStep(st0, key), key), key)
      ELSE IF gem.special = LINE THEN
        RecordSubStep(LineEffectOn(BeginStep(st0, key), key,
                        IF gem.direction = "none" THEN "horizontal" ELSE gem.direction), key)
      ELSE RecordSubStep(RainbowEffect(b, BeginStep(st0, key), key, gem.type), key)

\* activateSpecialsInRemovalSet: repeated passes over a snapshot of toRemove
activateSpecialsInRemovalSet(b, toRemove, anims, effects, processed) ==
  LET RECURSIVE pass(_, _)
      RECURSIVE each(_, _, _)
      each(snapshot, i, st) ==
        IF i <= Len(snapshot) /\ st = st
        THEN each(snapshot, i + 1, ActivateOne(b, st, snapshot[i]))
        ELSE st
      pass(st, iterations) ==
        IF st.found /\ iterations < MaxIterations
        THEN pass(each(st.toRemove, 1, [st EXCEPT !.found = FALSE]), iterations + 1)
        ELSE st
  IN  pass([toRemove |-> toRemove, anims |-> anims, effects |-> effects,
            processed |-> processed, bonusPoints |-> 0, chainCount |-> 0,
            subSteps |-> <<>>, found |-> TRUE,
            stepPositions |-> <<>>, stepAnims |-> EmptyMap, stepEffects |-> <<>>], 0)

\* ------------------------------------------------------------------ frames
SwapFrame(b) == [kind |-> "swap", board |-> b]
InvalidFrame(p1, p2) == [kind |-> "invalid", positions |-> << p1, p2 >>]
BoardFrame(b, newSpecials) == [kind |-> "board", board |-> b, newSpecials |-> newSpecials]
DropFrame(b) == [kind |-> "drop", board |-> b]
FillFrame(b) == [kind |-> "fill", board |-> b]
PreviewFrame(b, pending) == [kind |-> "preview", board |-> b, pendingPositions |-> pending]
ShuffleFrame(b, attempt, moves) ==
  [kind |-> "shuffle", board |-> b, attempt |-> attempt, moves |-> moves]

\* comboMultiplier = 1 + (combo - 1) * 0.5 is kept doubled: multiplierX2 = combo + 1
RemoveFrame(positions, anims, effects, points, combo, base, matchBonus, multX2, isBonus, subSteps) ==
  [kind |-> "remove", positions |-> positions, animations |-> anims, effects |-> effects,
   score |-> [points |-> points, combo |-> combo,
              breakdown |-> [base |-> base, matchBonus |-> matchBonus,
                             comboMultiplierX2 |-> multX2],
              isBonus |-> isBonus],
   subSteps |-> subSteps]

\* ------------------------------------------------------------------ special placement
NoSwap == [r1 |-> -1, c1 |-> -1, r2 |-> -1, c2 |-> -1]

SumSeq(seq) ==
  LET RECURSIVE go(_, _)
      go(i, acc) == IF i > Len(seq) THEN acc ELSE go(i + 1, acc + seq[i])
  IN  go(1, 0)

\* n^2 times the squared distance of p to the centroid (sumR / n, sumC / n)
Dist2(p, n, sumR, sumC) ==
  (n * p.r - sumR) * (n * p.r - sumR) + (n * p.c - sumC) * (n * p.c - sumC)

\* The loop keeping the first position of least distance (dist < bestDist)
NearestToCentroid(ps, sumR, sumC) ==
  ps[CHOOSE i \in 1 .. Len(ps) :
       /\ \A j \in 1 .. Len(ps) :
            Dist2(ps[i], Len(ps), sumR, sumC) <= Dist2(ps[j], Len(ps), sumR, sumC)
       /\ \A j \in 1 .. (i - 1) :
            Dist2(ps[j], Len(ps), sumR, sumC) > Dist2(ps[i], Len(ps), sumR, sumC)]

OnSwap(ps, lastSwapPos) ==
  SelectSeq(ps, LAMBDA p :
    \/ (p.r = lastSwapPos.r1 /\ p.c = lastSwapPos.c1)
    \/ (p.r = lastSwapPos.r2 /\ p.c = lastSwapPos.c2))

\* findBestSpecialPosition.  Distances to the centroid are compared exactly:
\* with n cells, n * (pos - centroid) = n * pos - sum is an integer.
findBestSpecialPosition(match, lastSwapPos, comboCount) ==
  IF comboCount <= 1 /\ lastSwapPos # NoSwap /\ OnSwap(match.positions, lastSwapPos) # <<>>
  THEN Head(OnSwap(match.positions, lastSwapPos))
  ELSE NearestToCentroid(match.positions,
                         SumSeq([i \in 1 .. Len(match.positions) |-> match.positions[i].r]),
                         SumSeq([i \in 1 .. Len(match.positions) |-> match.positions[i].c]))

\* The special queued when a branching group of five counts as a wildcard
SpecialAtComplexWildcard(match, pos) ==
  LET len == match.effectiveLen
  IN  IF len >= 6 \/ (match.isComplex /\ len >= 5) THEN
        [pos |-> pos, type |-> match.type, special |-> RAINBOW, direction |-> "none", bonus |-> 200]
      ELSE IF len = 5 THEN
        [pos |-> pos, type |-> match.type, special |-> LINE,
         direction |-> IF match.direction = "horizontal" THEN "horizontal" ELSE "vertical",
         bonus |-> 100]
      ELSE IF len = 4 THEN
        [pos |-> pos, type |-> match.type, special |-> BOMB, direction |-> "none", bonus |-> 50]
      ELSE
        [pos |-> pos, type |-> match.type, special |-> NONE, direction |-> "none", bonus |-> 0]

\* ------------------------------------------------------------------ processMatches
\* The special queued for a match group at position pos, or none (special = NONE)
SpecialAt(match, pos) ==
  LET len == match.effectiveLen
  IN  IF len >= 6 THEN
        [pos |-> pos, type |-> match.type, special |-> RAINBOW, direction |-> "none", bonus |-> 200]
      ELSE IF match.isComplex /\ len >= 5 THEN
        [pos |-> pos, type |-> match.type, special |-> BOMB, direction |-> "none", bonus |-> 150]
      ELSE IF len = 5 THEN
        [pos |-> pos, type |-> match.type, special |-> LINE,
         direction |-> IF match.direction = "horizontal" THEN "horizontal" ELSE "vertical",
         bonus |-> 100]
      ELSE IF len = 4 THEN
        [pos |-> pos, type |-> match.type, special |-> BOMB, direction |-> "none", bonus |-> 50]
      ELSE
        [pos |-> pos, type |-> match.type, special |-> NONE, direction |-> "none", bonus |-> 0]

SpecialFor(match, lastSwapPos, comboCount) ==
  SpecialAt(match, findBestSpecialPosition(match, lastSwapPos, comboCount))

\* The length bonus when it grows linearly
LengthBonusLinear(len) == IF len > 3 THEN (len - 3) * 20 ELSE 0

\* (len - 3)^2 * 20 for len > 3
LengthBonus(len) == IF len > 3 THEN (len - 3) * (len - 3) * 20 ELSE 0

specialPriority(sp) ==
  IF sp = RAINBOW THEN 3 ELSE IF sp = LINE THEN 2 ELSE IF sp = BOMB THEN 1 ELSE 0

\* specials.sort(...) by descending priority; Array.prototype.sort is stable
SortSpecials(specials) ==
  SelectSeq(specials, LAMBDA s : specialPriority(s.special) = 3) \o
  SelectSeq(specials, LAMBDA s : specialPriority(s.special) = 2) \o
  SelectSeq(specials, LAMBDA s : specialPriority(s.special) = 1)

\* A placement that stops after the first special it has placed
PlaceSpecialsFirstOnly(b, specials) ==
  LET RECURSIVE go(_, _, _, _)
      go(i, bb, used, placed) ==
        IF i > Len(specials) \/ placed # <<>> THEN [board |-> bb, newSpecials |-> placed]
        ELSE LET sp == specials[i]
             IN  IF sp.pos \in used THEN go(i + 1, bb, used, placed)
                 ELSE IF bb[sp.pos.r][sp.pos.c] = Null
                 THEN go(i + 1,
                         SetCell(bb, sp.pos.r, sp.pos.c, Cell(sp.type, sp.special, sp.direction)),
                         used \cup {sp.pos}, Append(placed, sp.pos))
                 ELSE go(i + 1, bb, used, placed)
  IN  go(1, b, {}, <<>>)

\* Placing the queued specials into the emptied slots
PlaceSpecials(b, specials) ==
  LET RECURSIVE go(_, _, _, _)
      go(i, bb, used, placed) ==
        IF i > Len(specials) THEN [board |-> bb, newSpecials |-> placed]
        ELSE LET sp == specials[i]
             IN  IF sp.pos \in used THEN go(i + 1, bb, used, placed)
                 ELSE IF bb[sp.pos.r][sp.pos.c] = Null
                 THEN go(i + 1,
                         SetCell(bb, sp.pos.r, sp.pos.c, Cell(sp.type, sp.special, sp.direction)),
                         used \cup {sp.pos}, Append(placed, sp.pos))
                 ELSE go(i + 1, bb, used, placed)
  IN  go(1, b, {}, <<>>)

PendingPositions(matches) ==
  LET RECURSIVE go(_, _)
      go(i, acc) == IF i > Len(matches) THEN acc ELSE go(i + 1, acc \o matches[i].positions)
  IN  go(1, <<>>)

\* drop and refill when the fill frame is pushed before the drop frame
FillAfterDropFillFirst(d, types, rng0) ==
  LET with(f) ==
        [board |-> f.board, rng |-> f.rng,
         frames |-> (IF f.filled THEN << FillFrame(f.board) >> ELSE <<>>) \o
                    (IF d.dropped THEN << DropFrame(d.board) >> ELSE <<>>)]
  IN  with(fillGems(d.board, types, rng0))

\* drop and refill shared by the combo branches and the cascade loop: the
\* frames pushed for them, the board and the RNG state
FillAfterDrop(d, types, rng0) ==
  LET with(f) ==
        [board |-> f.board, rng |-> f.rng,
         frames |-> (IF d.dropped THEN << DropFrame(d.board) >> ELSE <<>>) \o
                    (IF f.filled THEN << FillFrame(f.board) >> ELSE <<>>)]
  IN  with(fillGems(d.board, types, rng0))

DropAndFill(b, types, rng0) == FillAfterDrop(dropGems(b), types, rng0)

\* The frames and the state at the end of one iteration
IterationEnd(remove, placed, df, points, next) ==
  [board |-> df.board, rng |-> df.rng, points |-> points, matches |-> next,
   frames |->
     << remove, BoardFrame(placed.board, placed.newSpecials) >>
     \o df.frames
     \o (IF next # <<>> THEN << PreviewFrame(df.board, PendingPositions(next)) >> ELSE <<>>)]

IterationRefill(remove, placed, df, points) ==
  IterationEnd(remove, placed, df, points, findMatches(df.board))

IterationPlace(remove, placed, types, rng0, points) ==
  IterationRefill(remove, placed, DropAndFill(placed.board, types, rng0), points)

\* The score of an iteration when the multiplier stays at 1
IterationScoreFlat(b, rng0, types, comboCount, specials, matchBonus, act) ==
  LET basePoints == Len(act.toRemove) * 10
      points == basePoints + matchBonus
  IN  IterationPlace(
        RemoveFrame(positionsFromSet(act.toRemove), act.anims, act.effects, points,
                    comboCount, basePoints, matchBonus, 2,
                    matchBonus > 50, act.subSteps),
        PlaceSpecials(removePositions(b, act.toRemove), SortSpecials(specials)),
        types, rng0, points)

\* score, remove frame, removal and placement of the queued specials
IterationScore(b, rng0, types, comboCount, specials, matchBonus, act) ==
  LET basePoints == Len(act.toRemove) * 10
      points == ((basePoints + matchBonus) * (comboCount + 1)) \div 2
  IN  IterationPlace(
        RemoveFrame(positionsFromSet(act.toRemove), act.anims, act.effects, points,
                    comboCount, basePoints, matchBonus, comboCount + 1,
                    matchBonus > 50, act.subSteps),
        PlaceSpecials(removePositions(b, act.toRemove), SortSpecials(specials)),
        types, rng0, points)

IterationQueued(b, rng0, types, comboCount, matches, queued, act) ==
  IterationScore(b, rng0, types, comboCount,
                 SelectSeq(queued, LAMBDA s : s.special # NONE),
                 SumSeq([i \in 1 .. Len(matches) |->
                           queued[i].bonus + LengthBonus(matches[i].effectiveLen)])
                   + act.bonusPoints,
                 act)

\* One iteration of the while loop of processMatches, comboCount already
\* incremented; `matches` is findMatches of the board b.
CascadeIteration(b, rng0, types, lastSwapPos, comboCount, matches) ==
  IterationQueued(b, rng0, types, comboCount, matches,
    [i \in 1 .. Len(matches) |-> SpecialFor(matches[i], lastSwapPos, comboCount)],
    activateSpecialsInRemovalSet(b, SetAddAll(<<>>, PendingPositions(matches)),
                                 EmptyMap, <<>>, {}))

\* ------------------------------------------------------------------ legal moves
SwapCells(b, r1, c1, r2, c2) ==
  [b EXCEPT ![r1][c1] = b[r2][c2], ![r2][c2] = b[r1][c1]]

\* A validity test that only looks for a match after the exchange
isMoveValidMatchOnly(b, r1, c1, r2, c2) ==
  LET gem1 == b[r1][c1]
      gem2 == b[r2][c2]
  IN  IF gem1 = Null \/ gem2 = Null THEN FALSE
      ELSE findMatches(SwapCells(b, r1, c1, r2, c2)) # <<>>

\* A validity test in which a pair of specials needs a match like any other
isMoveValidNoCombo(b, r1, c1, r2, c2) ==
  LET gem1 == b[r1][c1]
      gem2 == b[r2][c2]
  IN  IF gem1 = Null \/ gem2 = Null THEN FALSE
      ELSE IF isRainbow(gem1) \/ isRainbow(gem2) THEN TRUE
      ELSE findMatches(SwapCells(b, r1, c1, r2, c2)) # <<>>

isMoveValid(b, r1, c1, r2, c2) ==
  LET gem1 == b[r1][c1]
      gem2 == b[r2][c2]
  IN  IF gem1 = Null \/ gem2 = Null THEN FALSE
      ELSE IF isSpecial(gem1) /\ isSpecial(gem2) THEN TRUE
      ELSE IF isRainbow(gem1) \/ isRainbow(gem2) THEN TRUE
      ELSE findMatches(SwapCells(b, r1, c1, r2, c2)) # <<>>

\* The candidate moves in the order the scans test them: for each cell in
\* row-major order, the right-hand neighbour, then the lower neighbour.
CandidateMoves(b) ==
  LET pairs(r, c) ==
        (IF c < Cols - 1 /\ b[r][c] # Null /\ b[r][c + 1] # Null
         THEN << [r1 |-> r, c1 |-> c, r2 |-> r, c2 |-> c + 1] >> ELSE <<>>) \o
        (IF r < Rows - 1 /\ b[r][c] # Null /\ b[r + 1][c] # Null
         THEN << [r1 |-> r, c1 |-> c, r2 |-> r + 1, c2 |-> c] >> ELSE <<>>)
      RECURSIVE row(_, _, _)
      row(r, c, acc) == IF c < Cols /\ acc = acc THEN row(r, c + 1, acc \o pairs(r, c)) ELSE acc
      RECURSIVE rows(_, _)
      rows(r, acc) == IF r < Rows /\ acc = acc THEN rows(r + 1, row(r, 0, acc)) ELSE acc
  IN  rows(0, <<>>)

ValidAmong(b, ms) ==
  {i \in DOMAIN ms : isMoveValid(b, ms[i].r1, ms[i].c1, ms[i].r2, ms[i].c2)}

hasValidMoves(b) == ValidAmong(b, CandidateMoves(b)) # {}

FirstOf(ms, ok) == IF ok = {} THEN NoSwap ELSE ms[CHOOSE i \in ok : \A j \in ok : i <= j]

FirstValid(b, ms) == FirstOf(ms, ValidAmong(b, ms))

\* findValidMove: the first valid candidate, or NoSwap for null
findValidMove(b) == FirstValid(b, CandidateMoves(b))

\* isMoveValid when the second exchange is left out
isMoveValidNoRestore(b, m) ==
  LET gem1 == b[m.r1][m.c1]
      gem2 == b[m.r2][m.c2]
  IN  IF gem1 = Null \/ gem2 = Null THEN [valid |-> FALSE, board |-> b]
      ELSE IF isSpecial(gem1) /\ isSpecial(gem2) THEN [valid |-> TRUE, board |-> b]
      ELSE IF isRainbow(gem1) \/ isRainbow(gem2) THEN [valid |-> TRUE, board |-> b]
      ELSE [valid |-> findMatches(SwapCells(b, m.r1, m.c1, m.r2, m.c2)) # <<>>,
            board |-> SwapCells(b, m.r1, m.c1, m.r2, m.c2)]

\* isMoveValid with the board it leaves behind: the two cells are exchanged
\* on the board itself, the matches are looked for, and the two cells are
\* exchanged again
isMoveValidOnBoard(b, m) ==
  LET gem1 == b[m.r1][m.c1]
      gem2 == b[m.r2][m.c2]
  IN  IF gem1 = Null \/ gem2 = Null THEN [valid |-> FALSE, board |-> b]
      ELSE IF isSpecial(gem1) /\ isSpecial(gem2) THEN [valid |-> TRUE, board |-> b]
      ELSE IF isRainbow(gem1) \/ isRainbow(gem2) THEN [valid |-> TRUE, board |-> b]
      ELSE [valid |-> findMatches(SwapCells(b, m.r1, m.c1, m.r2, m.c2)) # <<>>,
            board |-> SwapCells(SwapCells(b, m.r1, m.c1, m.r2, m.c2),
                                m.r1, m.c1, m.r2, m.c2)]

\* The pair of the cell p with its right-hand and with its lower neighbour
RightPair(p) == [r1 |-> p.r, c1 |-> p.c, r2 |-> p.r, c2 |-> p.c + 1]
DownPair(p) == [r1 |-> p.r, c1 |-> p.c, r2 |-> p.r + 1, c2 |-> p.c]

\* if (c < cols - 1 && board[r][c] && board[r][c + 1]) isMoveValid(...)
TestRight(b, p) ==
  IF p.c < Cols - 1 /\ b[p.r][p.c] # Null /\ b[p.r][p.c + 1] # Null
  THEN isMoveValidOnBoard(b, RightPair(p))
  ELSE [valid |-> FALSE, board |-> b]

\* if (r < rows - 1 && board[r][c] && board[r + 1][c]) isMoveValid(...)
TestDown(b, p) ==
  IF p.r < Rows - 1 /\ b[p.r][p.c] # Null /\ b[p.r + 1][p.c] # Null
  THEN isMoveValidOnBoard(b, DownPair(p))
  ELSE [valid |-> FALSE, board |-> b]

\* The scan after the test t of the pair m: it returns m, or goes on
ScanResult(t, m) == [move |-> IF t.valid THEN m ELSE NoSwap, board |-> t.board]

\* The body of the two loops for the cell p, after the test tr of its right
\* pair
ScanAfterRight(tr, p) ==
  IF tr.valid THEN ScanResult(tr, RightPair(p))
  ELSE ScanResult(TestDown(tr.board, p), DownPair(p))

\* The body of the two loops for the cell p on the board b
ScanCell(b, p) == ScanAfterRight(TestRight(b, p), p)

\* The loops of hasValidMoves and findValidMove on the live board: the move
\* they stop at (NoSwap when they run to the end) and the board they leave
ScanBoard(b) ==
  LET RECURSIVE row(_, _, _)
      row(r, c, st) ==
        IF st.move # NoSwap \/ c >= Cols THEN st
        ELSE row(r, c + 1, ScanCell(st.board, Pos(r, c)))
      RECURSIVE rows(_, _)
      rows(r, st) ==
        IF st.move # NoSwap \/ r >= Rows THEN st
        ELSE rows(r + 1, row(r, 0, st))
  IN  rows(0, [move |-> NoSwap, board |-> b])

\* ------------------------------------------------------------------ board generation
MaxGemAttempts == 50
MaxBoardAttempts == 100

\* randomGem: redraw while the type would complete a run of three with the
\* two cells to the left or the two cells above, at most 50 draws.  `redraw`
\* is the loop test with one more draw: it keeps a type that completes no run
\* and the generator with it, so the do-while loop is the first draw followed
\* by redraw applied MaxGemAttempts - 1 times, here n times as two halves.
randomGem(b, r, c, types, rng0) ==
  LET clash(type) ==
        \/ (c >= 2 /\ b[r][c - 1].type = type /\ b[r][c - 2].type = type)
        \/ (r >= 2 /\ b[r - 1][c].type = type /\ b[r - 2][c].type = type)
      redraw(d) == IF clash(d.val) THEN RngInt(d.rng, types) ELSE d
      RECURSIVE draw(_, _)
      draw(d, n) ==
        IF d = d /\ n > 1 THEN draw(draw(d, n \div 2), n - (n \div 2))
        ELSE IF n = 1 THEN redraw(d) ELSE d
  IN  draw(RngInt(rng0, types), MaxGemAttempts - 1)

\* One pass of the nested for loops (for r ... for c ...) writing a plain cell
\* into every slot.  The test st = st is always true: it only makes the state
\* of the loop a value before the next iteration starts.
GeneratePass(b, types, rng0) ==
  LET place(st, r, c) ==
        LET g == randomGem(st.board, r, c, types, st.rng)
        IN  [board |-> SetCell(st.board, r, c, Plain(g.val)), rng |-> g.rng]
      RECURSIVE row(_, _, _)
      row(r, c, st) == IF c < Cols /\ st = st THEN row(r, c + 1, place(st, r, c)) ELSE st
      RECURSIVE rows(_, _)
      rows(r, st) == IF r < Rows /\ st = st THEN rows(r + 1, row(r, 0, st)) ELSE st
  IN  rows(0, [board |-> b, rng |-> rng0])

\* The first pass and the while loop that regenerates while matches remain.
\* `retry` is the loop with its test: it leaves a board without matches as it
\* is, so the loop of at most MaxBoardAttempts passes is retry applied
\* MaxBoardAttempts times, here n times as two halves.
GenerateBoard(types, rng0) ==
  LET retry(cur) ==
        IF findMatches(cur.board) # <<>> THEN GeneratePass(cur.board, types, cur.rng) ELSE cur
      RECURSIVE again(_, _)
      again(cur, n) ==
        IF cur = cur /\ n > 1 THEN again(again(cur, n \div 2), n - (n \div 2))
        ELSE IF n = 1 THEN retry(cur) ELSE cur
  IN  again(GeneratePass(createEmptyBoard, types, rng0), MaxBoardAttempts)

\* The specials of the board in row-major order
SavedSpecials(b) ==
  SelectSeq([k \in 1 .. (Rows * Cols) |-> b[RowMajor[k].r][RowMajor[k].c]],
            LAMBDA cell : cell # Null /\ cell.special # NONE)

\* Every saved special is written over a random slot of the fresh board
PutSpecials(savedSpecials, fresh) ==
  LET RECURSIVE put(_, _, _)
      put(i, bb, rg) ==
        IF i <= Len(savedSpecials) /\ bb = bb
        THEN LET at(dr, dc) ==
                   put(i + 1,
                       IF bb[dr.val][dc.val] # Null
                       THEN SetCell(bb, dr.val, dc.val, savedSpecials[i]) ELSE bb,
                       dc.rng)
             IN  at(RngInt(rg, Rows), RngInt(RngInt(rg, Rows).rng, Cols))
        ELSE [board |-> bb, rng |-> rg]
  IN  put(1, fresh.board, fresh.rng)

\* regenerateBoard: the specials are saved, a fresh board is generated, then
\* the specials are put back
regenerateBoard(b, types, rng0) == PutSpecials(SavedSpecials(b), GenerateBoard(types, rng0))

\* ------------------------------------------------------------------ shuffle
MAX_SHUFFLE_ATTEMPTS == 10
MAX_VISUAL_ATTEMPTS == 3

\* The Fisher-Yates loop: for i from n-1 down to 1, j = rng.int(i + 1), swap
\* (sequence indices are the array indices plus one)
\* A shuffle that copies the drawn gem over gem i without exchanging the two
FisherYatesCopy(gems, rng0) ==
  LET RECURSIVE go(_, _, _)
      go(i, g, rg) ==
        IF i > 0 /\ g = g
        THEN LET d == RngInt(rg, i + 1)
             IN  go(i - 1, [g EXCEPT ![i + 1] = g[d.val + 1]], d.rng)
        ELSE [gems |-> g, rng |-> rg]
  IN  go(Len(gems) - 1, gems, rng0)

FisherYates(gems, rng0) ==
  LET RECURSIVE go(_, _, _)
      go(i, g, rg) ==
        IF i > 0 /\ g = g
        THEN LET d == RngInt(rg, i + 1)
             IN  go(i - 1, [g EXCEPT ![i + 1] = g[d.val + 1], ![d.val + 1] = g[i + 1]], d.rng)
        ELSE [gems |-> g, rng |-> rg]
  IN  go(Len(gems) - 1, gems, rng0)

\* The board refilled row by row with the shuffled gems, and the moves
Refilled(occupied, fy) ==
  [board |-> [r \in RowIdx |-> [c \in ColIdx |->
                IF r * Cols + c + 1 <= Len(occupied) THEN fy.gems[r * Cols + c + 1] ELSE Null]],
   rng |-> fy.rng,
   moves |-> [i \in 1 .. Len(occupied) |->
                [from |-> occupied[i], to |-> RowMajor[i], type |-> fy.gems[i].type]]]

PermuteOccupied(b, occupied, rng0) ==
  Refilled(occupied,
           FisherYates([i \in 1 .. Len(occupied) |-> b[occupied[i].r][occupied[i].c]], rng0))

\* The permutation part of shuffleBoard: the board, the moves of the shuffle
\* frame and the RNG state
ShufflePermute(b, rng0) ==
  PermuteOccupied(b, SelectSeq(RowMajor, LAMBDA p : b[p.r][p.c] # Null), rng0)

\* ------------------------------------------------------------------ special combos
AddPresent(b, acc, targets, anim) ==
  LET present == SelectSeq(targets, LAMBDA p : b[p.r][p.c] # Null)
  IN  [acc EXCEPT !.toRemove = SetAddAll(@, present),
                  !.anims = MapSetAll(@, present, anim)]

AddKey(acc, k, anim) ==
  [acc EXCEPT !.toRemove = SetAdd(@, k), !.anims = MapSet(@, k, anim)]

\* The cells one source position clears in a combo: the 3x3 square of a
\* transferred bomb, or the whole column / row of a line
SourceTargets(kind, p) ==
  IF kind = "bomb" THEN Square(p.r, p.c, 1)
  ELSE IF kind = "vertical" THEN ColCells(p.c)
  ELSE RowCells(p.r)

\* The effect pushed for that source position
SourceEffect(kind, p) ==
  IF kind = "bomb" THEN Explosion(p.r, p.c)
  ELSE IF kind = "vertical" THEN LineEffect("vertical", p.c)
  ELSE LineEffect("horizontal", p.r)

\* The loops over the source positions of a combo: for every position of
\* `sources` in order, add its targets, then push its effect
ForEachSource(b, acc0, sources, kind, anim) ==
  LET RECURSIVE go(_, _)
      go(i, acc) ==
        IF i <= Len(sources) /\ acc = acc
        THEN LET q == sources[i]
                 a == AddPresent(b, acc, SourceTargets(kind, q), anim)
             IN  go(i + 1, [a EXCEPT !.effects = Append(@, SourceEffect(kind, q))])
        ELSE acc
  IN  go(1, acc0)

\* Columns c-1..c+1 (or rows r-1..r+1) that lie on the board, in order
Band(center, limit) == SelectSeq(<< center - 1, center, center + 1 >>,
                                 LAMBDA x : x >= 0 /\ x < limit)

\* The removal set, animations, effects and flat points of the branch
\* `if (bothAreSpecial)`; b is the board after the swap, gem1 and gem2 are the
\* cells that were at pos1 and pos2 before it.
ComboRemoval(b, gem1, gem2, pos1, pos2) ==
  LET empty == [toRemove |-> <<>>, anims |-> EmptyMap, effects |-> <<>>]
      sp1 == gem1.special
      sp2 == gem2.special
      gem1IsRainbow == sp1 = RAINBOW
      gem2IsRainbow == sp2 = RAINBOW
      otherSpecial == IF gem1IsRainbow THEN sp2 ELSE sp1
      targetType == IF gem1IsRainbow THEN gem2.type ELSE gem1.type
      rainbowPos == IF gem1IsRainbow THEN pos2 ELSE pos1
      withPoints(acc, flat, rate) ==
        [toRemove |-> acc.toRemove, anims |-> acc.anims, effects |-> acc.effects,
         points |-> flat + Len(acc.toRemove) * rate]
  IN  IF gem1IsRainbow \/ gem2IsRainbow THEN
        IF gem1IsRainbow /\ gem2IsRainbow THEN
          LET both == SelectSeq(RowMajor, LAMBDA p :
                        b[p.r][p.c] # Null /\ b[p.r][p.c].type \in {gem1.type, gem2.type})
              a == AddPresent(b, empty, both, "rainbow-cleared")
          IN  withPoints(AddKey(AddKey(a, pos1, "rainbow-cleared"), pos2, "rainbow-cleared"),
                         1000, 15)
        ELSE IF otherSpecial = BOMB THEN
          LET a == ForEachSource(b, empty, CellsOfType(b, targetType),
                                 "bomb", "exploding")
              \* the explosion effect is pushed before the cells are added; the
              \* two lists are independent, so the order within each is the same
          IN  withPoints(AddKey(a, rainbowPos, "rainbow-cleared"), 2000, 20)
        ELSE
          LET lineGem == IF gem1IsRainbow THEN gem2 ELSE gem1
              isVertical == lineGem.direction = "vertical"
              a == IF isVertical
                   THEN ForEachSource(b, empty, CellsOfType(b, targetType),
                                      "vertical", "line-cleared")
                   ELSE ForEachSource(b, empty, CellsOfType(b, targetType),
                                      "horizontal", "line-cleared")
          IN  withPoints(AddKey(a, rainbowPos, "rainbow-cleared"), 2500, 20)
      ELSE IF sp1 = BOMB /\ sp2 = BOMB THEN
        LET a == AddPresent(b, empty, Square(pos1.r, pos1.c, 2), "exploding")
        IN  withPoints([a EXCEPT !.effects = << Explosion(pos1.r, pos1.c) >>], 1000, 15)
      ELSE IF sp1 = LINE /\ sp2 = LINE THEN
        LET a == AddPresent(b, AddPresent(b, empty, RowCells(pos1.r), "line-cleared"),
                            ColCells(pos1.c), "line-cleared")
        IN  withPoints([a EXCEPT !.effects = << LineEffect("horizontal", pos1.r),
                                                LineEffect("vertical", pos1.c) >>], 800, 12)
      ELSE
        LET lineGem == IF sp1 = LINE THEN gem1 ELSE gem2
            linePos == IF sp1 = LINE THEN pos2 ELSE pos1
            a == IF lineGem.direction = "vertical"
                 THEN ForEachSource(b, empty,
                        [i \in DOMAIN Band(linePos.c, Cols) |-> Pos(0, Band(linePos.c, Cols)[i])],
                        "vertical", "line-cleared")
                 ELSE ForEachSource(b, empty,
                        [i \in DOMAIN Band(linePos.r, Rows) |-> Pos(Band(linePos.r, Rows)[i], 0)],
                        "horizontal", "line-cleared")
        IN  withPoints(a, 1200, 15)

\* The removal set when only the partner's type is cleared
RainbowRemovalPartnerOnly(b, gem1, gem2, pos1, pos2) ==
  LET gem1IsRainbow == gem1.special = RAINBOW
      targetType == IF gem1IsRainbow THEN gem2.type ELSE gem1.type
      rainbowPos == IF gem1IsRainbow THEN pos2 ELSE pos1
      hit == SelectSeq(RowMajor, LAMBDA p : b[p.r][p.c] # Null /\ b[p.r][p.c].type = targetType)
  IN  [toRemove |-> SetAdd(hit, rainbowPos),
       anims |-> MapSet(MapSetAll(EmptyMap, hit, "rainbow-cleared"), rainbowPos, "rainbow-cleared"),
       rainbowKey |-> rainbowPos]

\* The removal set of the branch `else if (gem1Special === RAINBOW || ...)`:
\* every cell of the partner's type or of the rainbow's own type, and the
\* rainbow's position after the swap
RainbowRemoval(b, gem1, gem2, pos1, pos2) ==
  LET gem1IsRainbow == gem1.special = RAINBOW
      targetType == IF gem1IsRainbow THEN gem2.type ELSE gem1.type
      rainbowType == IF gem1IsRainbow THEN gem1.type ELSE gem2.type
      rainbowPos == IF gem1IsRainbow THEN pos2 ELSE pos1
      hit == SelectSeq(RowMajor, LAMBDA p :
               b[p.r][p.c] # Null /\ b[p.r][p.c].type \in {targetType, rainbowType})
  IN  [toRemove |-> SetAdd(hit, rainbowPos),
       anims |-> MapSet(MapSetAll(EmptyMap, hit, "rainbow-cleared"), rainbowPos, "rainbow-cleared"),
       rainbowKey |-> rainbowPos]

\* ------------------------------------------------------------------ the page (main.ts)
\* The page is modelled around an engine of which only this is kept: which
\* game its board belongs to (`game`, one more after every reset + init),
\* how many swap calls it has taken, and what a swap call returns, one of
\* SwapResults.
MaxAttempts == 3
MaxClicks == 2
MaxEvents == 4
PageRows == 2
PageCols == 2

\* The cells of the page's board, and null for `selected` and `pointerStart`
PageCells == {Pos(r, c) : r \in 0 .. (PageRows - 1), c \in 0 .. (PageCols - 1)}

NoPos == Pos(-1, -1)

PointerIds == {1, 2}

\* The drags that pass dragThreshold, by their longer axis and its sign
Directions == {"left", "right", "up", "down"}

\* What engine.swap returns to the page: the frames of a reverted swap, and
\* those of the least swap that scores
SwapResults ==
  {[frames |-> << "swap", "invalid", "board" >>, points |-> 0],
   [frames |-> << "swap", "remove", "board", "fill" >>, points |-> 30]}

\* The frame kinds for which playFrames calls renderBoard(frame.board)
BoardKinds == {"swap", "board", "drop", "fill", "shuffle"}

\* The module variables after the script has run, and the engine it built
PageLoaded ==
  [isProcessing |-> FALSE, runToken |-> 0, pendingPoints |-> 0,
   gamePoints |-> 0, gameMoves |-> 0,
   game |-> 0,        \* the game the engine's board belongs to
   swapCalls |-> 0,   \* the calls of engine.swap made
   screen |-> 0,      \* the game of the board renderBoard drew last
   statsFrom |-> {},  \* the games whose swaps are counted in gamePoints
   playing |-> {},    \* the trySwap calls waiting in a sleep of playFrames
   timers |-> {},     \* the pending setTimeout(startNewGame, 100), each named by
                      \* the token its click set
   tries |-> 0,       \* the swap attempts made
   refused |-> 0,     \* those that returned at a test of isProcessing
   clicks |-> 0,      \* the clicks on New Game
   selected |-> NoPos, pointerId |-> 0, pointerStart |-> NoPos,
   dragTriggered |-> FALSE,
   swapArgs |-> <<>>, \* the positions given to engine.swap by the pointer handlers
   log |-> <<>>]      \* the pointer events handled

\* One frame in playFrames for the call p: what it draws and adds
playFrame(u, p, kind) ==
  [u EXCEPT !.screen = IF kind \in BoardKinds THEN p.game ELSE @,
            !.pendingPoints = IF kind = "remove" THEN @ + p.points ELSE @]

\* recordMove(engine.state.board, points)
recordMove(u, p) ==
  IF p.points > 0
  THEN [u EXCEPT !.gamePoints = @ + p.points, !.gameMoves = @ + 1,
                 !.statsFrom = @ \cup {p.game}]
  ELSE u

\* trySwap without its first line
trySwapUnguarded(u, res) ==
  LET p == [token |-> u.runToken + 1, game |-> u.game, points |-> res.points,
            left |-> Tail(res.frames)]
  IN  [playFrame([u EXCEPT !.isProcessing = TRUE, !.pendingPoints = 0,
                           !.runToken = @ + 1, !.swapCalls = @ + 1,
                           !.tries = @ + 1],
                 p, Head(res.frames))
         EXCEPT !.playing = @ \cup {p}]

\* trySwap up to the first sleep of playFrames: res is what engine.swap
\* returns; the call then waits with the frames after the first
trySwap(u, res) ==
  IF u.isProcessing THEN [u EXCEPT !.tries = @ + 1, !.refused = @ + 1]
  ELSE LET p == [token |-> u.runToken + 1, game |-> u.game, points |-> res.points,
                 left |-> Tail(res.frames)]
       IN  [playFrame([u EXCEPT !.isProcessing = TRUE, !.pendingPoints = 0,
                                !.runToken = @ + 1, !.swapCalls = @ + 1,
                                !.tries = @ + 1],
                      p, Head(res.frames))
              EXCEPT !.playing = @ \cup {p}]

\* The pointermove handler when the drag passes the threshold
dragSwap(u, res) ==
  IF u.isProcessing THEN [u EXCEPT !.tries = @ + 1, !.refused = @ + 1]
  ELSE trySwap(u, res)

\* The call p of trySwap when its sleep ends: playFrames returns if the
\* token is stale, plays the next frame, or returns at the end of the
\* frames; then trySwap tests the token and records the move
wake(u, p) ==
  IF p.token # u.runToken THEN [u EXCEPT !.playing = @ \ {p}]
  ELSE IF p.left # <<>>
  THEN [playFrame(u, p, Head(p.left))
          EXCEPT !.playing = (@ \ {p}) \cup {[p EXCEPT !.left = Tail(@)]}]
  ELSE [recordMove([u EXCEPT !.isProcessing = FALSE], p)
          EXCEPT !.pendingPoints = 0, !.playing = @ \ {p}]

\* startNewGame: engine.reset, engine.init, resetStats, renderBoard
startNewGame(u) ==
  [u EXCEPT !.game = @ + 1, !.gamePoints = 0, !.gameMoves = 0, !.pendingPoints = 0,
            !.statsFrom = {}, !.screen = u.game + 1, !.selected = NoPos]

\* The click handler of the New Game button
newGameClick(u) ==
  IF u.isProcessing
  THEN [u EXCEPT !.runToken = @ + 1, !.isProcessing = FALSE,
                 !.timers = @ \cup {u.runToken + 1}, !.clicks = @ + 1]
  ELSE startNewGame([u EXCEPT !.clicks = @ + 1])

isAdjacent(a, b) ==
  LET dr == IF a.r >= b.r THEN a.r - b.r ELSE b.r - a.r
      dc == IF a.c >= b.c THEN a.c - b.c ELSE b.c - a.c
  IN  (dr = 1 /\ dc = 0) \/ (dr = 0 /\ dc = 1)

\* v is u after trySwap(pos1, pos2): the positions are noted if engine.swap
\* was called
SwapCalled(u, v, pos1, pos2) ==
  IF v.swapCalls > u.swapCalls
  THEN [v EXCEPT !.swapArgs = Append(@, << pos1, pos2 >>)]
  ELSE v

\* The pointerdown handler, for a pointer on the cell `cell`
pointerdown(u, id, cell) ==
  IF u.isProcessing THEN u
  ELSE [u EXCEPT !.pointerId = id, !.pointerStart = cell, !.dragTriggered = FALSE,
                 !.selected = IF @ = NoPos THEN cell ELSE @]

\* The cell a drag from `start` aims at
DragTarget(start, dir) ==
  CASE dir = "left" -> Pos(start.r, start.c - 1)
    [] dir = "right" -> Pos(start.r, start.c + 1)
    [] dir = "up" -> Pos(start.r - 1, start.c)
    [] dir = "down" -> Pos(start.r + 1, start.c)

\* The pointermove handler, for a move of more than dragThreshold
pointermove(u, id, dir, res) ==
  IF u.pointerStart = NoPos \/ u.pointerId # id THEN u
  ELSE IF u.isProcessing THEN dragSwap(u, res)
  ELSE IF u.dragTriggered \/ DragTarget(u.pointerStart, dir) \notin PageCells THEN u
  ELSE SwapCalled(u, dragSwap([u EXCEPT !.dragTriggered = TRUE, !.selected = NoPos], res),
                  u.pointerStart, DragTarget(u.pointerStart, dir))

\* The pointerup handler
pointerup(u, id, res) ==
  IF u.pointerStart = NoPos \/ u.pointerId # id THEN u
  ELSE LET start == u.pointerStart
           v == [u EXCEPT !.pointerId = 0, !.pointerStart = NoPos]
       IN  IF u.dragTriggered THEN v
           ELSE IF u.selected = NoPos THEN [v EXCEPT !.selected = start]
           ELSE IF u.selected = start THEN [v EXCEPT !.selected = NoPos]
           ELSE IF isAdjacent(u.selected, start)
           THEN SwapCalled(u, trySwap([v EXCEPT !.selected = NoPos], res),
                           u.selected, start)
           ELSE [v EXCEPT !.selected = start]

\* The pointercancel handler
pointercancel(u, id) ==
  IF u.pointerId = id
  THEN [u EXCEPT !.pointerId = 0, !.pointerStart = NoPos, !.dragTriggered = FALSE]
  ELSE u

\* The page is at rest: no playback, no pointer down, nothing selected
AtRest(u) ==
  /\ ~u.isProcessing /\ u.playing = {} /\ u.timers = {}
  /\ u.selected = NoPos /\ u.pointerStart = NoPos

\* v is u after the handler of the event `kind`: the event is noted with
\* whether the page was at rest before it and the engine.swap calls made
\* before and after it
Handled(u, v, kind, id, cell) ==
  [v EXCEPT !.log = Append(@, [kind |-> kind, id |-> id, cell |-> cell,
                               rest |-> AtRest(u),
                               before |-> Len(u.swapArgs),
                               after |-> Len(v.swapArgs)])]

\* No query has been answered since the last mutating call
NoAnswer == [has |-> FALSE, move |-> NoSwap]

\* ------------------------------------------------------------------ state
VARIABLES
  board,         \* state.board
  rng,           \* state.rng, the LCG state
  gemTypes,      \* state.gemTypes
  lastSwapPos,   \* state.lastSwapPos, NoSwap for null
  pc,            \* "idle", or where the running swap call stands: "cascade", "shuffle"
  frames,        \* the frame list of the running or last swap call
  pointsEarned,  \* its pointsEarned
  moveValid,     \* its moveValid
  caller,        \* who runs processMatches: "special", "plain" (branches of swap), "shuffle"
  attempts,      \* the attempts argument of the running shuffleBoard
  comboCount,    \* comboCount of the running processMatches
  cascadePoints, \* totalPoints of the running processMatches
  lastCall,      \* the last API call made: "new", "init", "setBoard", "swap",
                 \* "hasValidMoves", "findValidMove"
  args,          \* the positions given to the last swap call
  pre,           \* board, rng and lastSwapPos when the last swap or query call was made
  swaps,         \* number of swap calls made
  answer,        \* what the last hasValidMoves / findValidMove call returned
  ui             \* the page of main.ts around the engine: its module variables,
                 \* the trySwap calls in flight and the pending timers

vars == << board, rng, gemTypes, lastSwapPos, pc, frames, pointsEarned, moveValid,
           caller, attempts, comboCount, cascadePoints, lastCall, args, pre, swaps,
           answer, ui >>

\* ------------------------------------------------------------------ inputs
Seeds == {5, 42, 2040}

GemTypeChoices == {1, GemTypes}

B(t) == Cell(t, BOMB, "none")
H(t) == Cell(t, LINE, "horizontal")
V(t) == Cell(t, LINE, "vertical")
W(t) == Cell(t, RAINBOW, "none")
P(t) == Plain(t)

\* Boards given to setBoard.  A table is repeated when the board is larger.
Tables == <<
  \* 1: moves that complete a straight five, a four and a three
  << << P(0), P(0), P(1), P(0), P(0) >>,
     << P(1), P(2), P(0), P(2), P(1) >>,
     << P(2), P(1), P(2), P(1), P(3) >>,
     << P(3), P(2), P(3), P(4), P(1) >>,
     << P(4), P(3), P(4), P(2), P(0) >> >>,
  \* 2: moves that complete an L of five and a four
  << << P(0), P(0), P(1), P(0), P(2) >>,
     << P(1), P(2), P(0), P(3), P(1) >>,
     << P(2), P(1), P(0), P(1), P(3) >>,
     << P(3), P(4), P(2), P(4), P(0) >>,
     << P(4), P(3), P(4), P(2), P(1) >> >>,
  \* 3: a move that completes a T of six
  << << P(1), P(2), P(0), P(1), P(3) >>,
     << P(0), P(0), P(2), P(0), P(1) >>,
     << P(2), P(1), P(0), P(3), P(2) >>,
     << P(3), P(4), P(0), P(4), P(1) >>,
     << P(4), P(3), P(2), P(1), P(0) >> >>,
  \* 4: a rainbow of type 0 next to plain cells, type 0 elsewhere
  << << W(0), P(1), P(2), P(3), P(4) >>,
     << P(0), P(2), P(3), P(1), P(0) >>,
     << P(2), P(3), P(1), P(0), P(2) >>,
     << P(3), P(0), P(0), P(2), P(1) >>,
     << P(1), P(4), P(2), P(3), P(0) >> >>,
  \* 5: adjacent pairs of specials
  << << B(0), B(1), P(2), H(3), V(4) >>,
     << W(2), P(3), P(4), P(0), H(1) >>,
     << W(3), V(0), P(1), P(2), B(3) >>,
     << P(4), P(1), P(0), P(3), P(2) >>,
     << P(0), P(2), P(3), P(4), P(1) >> >>,
  \* 6: a four through a bomb whose blast reaches a line and a rainbow
  << << W(4), P(1), P(0), P(3), P(4) >>,
     << P(0), B(0), P(2), P(0), P(1) >>,
     << P(2), V(3), P(1), P(4), P(2) >>,
     << P(3), P(2), P(4), P(1), P(3) >>,
     << P(1), P(3), P(0), P(2), P(4) >> >>,
  \* 7: two stacked runs and a third run already on the board
  << << P(0), P(0), P(0), P(1), P(2) >>,
     << P(0), P(0), P(0), P(2), P(1) >>,
     << P(1), P(1), P(1), P(3), P(4) >>,
     << P(2), P(3), P(4), P(1), P(0) >>,
     << P(3), P(4), P(2), P(0), P(1) >> >>,
  \* 8: an empty slot
  << << Null, P(0), P(1), P(0), P(0) >>,
     << P(1), P(2), P(0), P(2), P(1) >>,
     << P(2), P(1), P(2), P(1), P(3) >>,
     << P(3), P(2), P(3), P(4), P(1) >>,
     << P(4), P(3), P(4), P(2), P(0) >> >>,
  \* 9: a run of three through a wildcard that starts a chain of 21 specials,
  \* each reached only by the effect of the one before it
  << << B(1), W(1), H(2), P(32), W(3) >>,
     << W(2), P(1), B(6), W(7), V(9) >>,
     << B(4), P(1), H(5), P(33), W(6) >>,
     << W(5), V(3), V(7), H(8), W(9) >>,
     << H(10), W(4), W(8), B(11), W(10) >> >>,
  \* 10: a bomb that a swap moves aside while its plain partner completes a
  \* run of three
  << << P(1), P(1), B(2), P(1), P(3) >>,
     << P(2), P(3), P(0), P(4), P(0) >>,
     << P(3), P(0), P(4), P(2), P(1) >>,
     << P(0), P(4), P(2), P(3), P(4) >>,
     << P(4), P(2), P(3), P(0), P(2) >> >>,
  \* 11: two adjacent bombs in a corner
  << << B(0), B(1), P(2), P(3), P(4) >>,
     << P(2), P(3), P(4), P(0), P(1) >>,
     << P(4), P(0), P(1), P(2), P(3) >>,
     << P(1), P(2), P(3), P(4), P(0) >>,
     << P(3), P(4), P(0), P(1), P(2) >> >>,
  \* 12: two pairs of adjacent lines, neither on the rows and columns of the
  \* other: horizontal beside vertical, horizontal above horizontal
  << << P(0), P(1), P(2), H(3), P(4) >>,
     << P(2), P(3), P(4), H(0), P(1) >>,
     << P(4), P(0), P(1), P(2), P(3) >>,
     << P(1), P(2), P(3), P(4), P(0) >>,
     << H(3), V(4), P(0), P(1), P(2) >> >>,
  \* 13: a bomb beside a vertical line and a bomb beside a horizontal line,
  \* neither pair in the band of the other
  << << B(0), V(1), P(2), P(3), P(4) >>,
     << P(2), P(3), P(4), P(0), P(1) >>,
     << P(4), P(0), P(1), P(2), P(3) >>,
     << P(1), P(2), P(3), P(4), P(0) >>,
     << P(3), P(4), P(0), B(1), H(2) >> >> >>

TableBoard(t) ==
  [r \in RowIdx |-> [c \in ColIdx |-> t[(r % Len(t)) + 1][(c % Len(t[1])) + 1]]]

\* The table with rows and columns exchanged
Transposed(t) == [c \in 1 .. Len(t[1]) |-> [r \in 1 .. Len(t) |-> t[r][c]]]

\* Every cell of its own type: no move can ever match
DistinctBoard == [r \in RowIdx |-> [c \in ColIdx |-> P(10 + r * Cols + c)]]

\* A strict two-colour checkerboard
CheckerBoard == [r \in RowIdx |-> [c \in ColIdx |-> P((r + c) % 2)]]

\* Distinct types around a rainbow and one or two other specials far apart
SparseBoard(withLine) ==
  [r \in RowIdx |-> [c \in ColIdx |->
     IF r = 0 /\ c = 0 THEN W(0)
     ELSE IF r = Rows - 1 /\ c = Cols - 1 THEN B(0)
     ELSE IF withLine /\ r = Rows - 1 /\ c = 0 THEN V(1)
     ELSE P(10 + r * Cols + c)]]

\* The sparse board with a second line at the end of the top row
TwoLineBoard ==
  [SparseBoard(TRUE) EXCEPT ![0][Cols - 1] = H(10 + Cols - 1)]

Fixtures ==
  {TableBoard(Tables[i]) : i \in DOMAIN Tables}
  \cup {TableBoard(Transposed(Tables[i])) : i \in 1 .. 3}
  \cup {DistinctBoard, CheckerBoard, SparseBoard(FALSE), SparseBoard(TRUE), TwoLineBoard}

Adjacent(p, q) ==
  \/ (p.r = q.r /\ (p.c = q.c + 1 \/ q.c = p.c + 1))
  \/ (p.c = q.c /\ (p.r = q.r + 1 \/ q.r = p.r + 1))

BoardPositions == {Pos(r, c) : r \in RowIdx, c \in ColIdx}

\* The position pairs given to swap: every ordered pair of adjacent cells, a
\* pair of equal positions, a pair of distant cells, and positions outside
\* the board on every side
SwapInputs ==
  {<< p, q >> \in BoardPositions \X BoardPositions : Adjacent(p, q)}
  \cup {<< Pos(0, 0), Pos(0, 0) >>, << Pos(0, 0), Pos(Rows - 1, Cols - 1) >>,
        << Pos(-1, 0), Pos(0, 0) >>, << Pos(0, 0), Pos(0, -1) >>,
        << Pos(Rows, 0), Pos(Rows - 1, 0) >>, << Pos(0, Cols - 1), Pos(0, Cols) >>}

\* ------------------------------------------------------------------ the run of one swap call
\* The local state of a swap call as a record S with the fields board, rng,
\* lastSwapPos, frames, pointsEarned, moveValid, caller, attempts, comboCount,
\* cascadePoints and pc.

\* The end of swap: this.state.lastSwapPos = null; return
Finish(S) == [S EXCEPT !.lastSwapPos = NoSwap, !.pc = "idle"]

\* regenerateBoard(state) and the shuffle frame pushed after it
Regenerated(S1, g) ==
  [S1 EXCEPT !.board = g.board, !.rng = g.rng,
             !.frames = Append(@, ShuffleFrame(g.board, S1.attempts + 1, <<>>))]

\* The check for a legal move when shuffleBoard calls itself once more
CheckMovesOneMore(S1) ==
  IF hasValidMoves(S1.board) THEN Finish(S1)
  ELSE IF S1.caller # "shuffle" THEN [S1 EXCEPT !.pc = "shuffle", !.attempts = 0]
  ELSE IF S1.attempts <= MAX_SHUFFLE_ATTEMPTS
       THEN [S1 EXCEPT !.pc = "shuffle", !.attempts = @ + 1]
  ELSE Finish(Regenerated(S1, regenerateBoard(S1.board, gemTypes, S1.rng)))

\* The check for a legal move that follows processMatches in its caller:
\*  - in swap: shuffleBoard(state, 0) when there is none;
\*  - in shuffleBoard(state, attempts): shuffleBoard(state, attempts + 1)
\*    while attempts < MAX_SHUFFLE_ATTEMPTS, regenerateBoard after that.
CheckMoves(S1) ==
  IF hasValidMoves(S1.board) THEN Finish(S1)
  ELSE IF S1.caller # "shuffle" THEN [S1 EXCEPT !.pc = "shuffle", !.attempts = 0]
  ELSE IF S1.attempts < MAX_SHUFFLE_ATTEMPTS
       THEN [S1 EXCEPT !.pc = "shuffle", !.attempts = @ + 1]
  ELSE Finish(Regenerated(S1, regenerateBoard(S1.board, gemTypes, S1.rng)))

\* The caller adds the points and leaves moveValid as it was
AfterCascadeKeep(S) ==
  CheckMoves([S EXCEPT !.pointsEarned = @ + S.cascadePoints])

\* The caller drops the points of a cascade that a shuffle set off
AfterCascadeDiscard(S) ==
  CheckMoves([S EXCEPT !.pointsEarned = IF S.caller = "shuffle" THEN @
                                        ELSE @ + S.cascadePoints,
                       !.moveValid = IF S.caller = "plain" THEN S.cascadePoints > 0 ELSE @])

\* What follows processMatches (or its omission) in the caller: the points
\* are added, then the check for a legal move.
AfterCascade(S) ==
  CheckMoves([S EXCEPT !.pointsEarned = @ + S.cascadePoints,
                       !.moveValid = IF S.caller = "plain" THEN S.cascadePoints > 0 ELSE @])

\* The head of the while loop of processMatches
LoopHead(S) ==
  IF findMatches(S.board) # <<>> THEN [S EXCEPT !.pc = "cascade"] ELSE AfterCascade(S)

\* A call of processMatches by `who`
processMatches(S, who) ==
  LoopHead([S EXCEPT !.caller = who, !.comboCount = 0, !.cascadePoints = 0])

Current ==
  [board |-> board, rng |-> rng, lastSwapPos |-> lastSwapPos, frames |-> frames,
   pointsEarned |-> pointsEarned, moveValid |-> moveValid, caller |-> caller,
   attempts |-> attempts, comboCount |-> comboCount, cascadePoints |-> cascadePoints,
   pc |-> pc]

Install(S) ==
  /\ board' = S.board
  /\ rng' = S.rng
  /\ lastSwapPos' = S.lastSwapPos
  /\ frames' = S.frames
  /\ pointsEarned' = S.pointsEarned
  /\ moveValid' = S.moveValid
  /\ caller' = S.caller
  /\ attempts' = S.attempts
  /\ comboCount' = S.comboCount
  /\ cascadePoints' = S.cascadePoints
  /\ pc' = S.pc

\* The remove and board frames of a special branch, drop and refill, then
\* processMatches
ResolveRefill(S, act, points, removed, df) ==
  processMatches(
    [S EXCEPT !.board = df.board, !.rng = df.rng,
              !.pointsEarned = @ + points,
              !.moveValid = TRUE,
              !.frames = @ \o
                 << RemoveFrame(positionsFromSet(act.toRemove), act.anims, act.effects,
                                points, 1, points, 0, 2, TRUE, <<>>),
                    BoardFrame(removed, <<>>) >> \o df.frames],
    "special")

ResolveRemoved(S, act, points, removed) ==
  ResolveRefill(S, act, points, removed, DropAndFill(removed, gemTypes, S.rng))

ResolveActivated(S, act, points) ==
  ResolveRemoved(S, act, points, removePositions(S.board, act.toRemove))

\* The branch `if (bothAreSpecial)` after its removal set is built: the
\* points count the set before the chain expansion
ResolveCombo(S, rem, act) == ResolveActivated(S, act, rem.points + act.bonusPoints)

\* The rainbow + plain branch after its removal set is built: the points
\* count the set after the chain expansion
ResolveRainbow(S, act) ==
  ResolveActivated(S, act, 500 + Len(act.toRemove) * 10 + act.bonusPoints)

ComboBranch(S0, rem) ==
  ResolveCombo(S0, rem,
    activateSpecialsInRemovalSet(S0.board, rem.toRemove, rem.anims, rem.effects, {}))

RainbowBranch(S0, rem) ==
  ResolveRainbow(S0,
    activateSpecialsInRemovalSet(S0.board, rem.toRemove, rem.anims, <<>>, {rem.rainbowKey}))

\* The branch when the exchange is not undone
PlainBranchNoRevert(S0, pos1, pos2) ==
  IF findMatches(S0.board) = <<>> THEN
    Finish([S0 EXCEPT !.frames = @ \o << InvalidFrame(pos1, pos2), BoardFrame(S0.board, <<>>) >>])
  ELSE processMatches(S0, "plain")

\* The two branches without a special pair or a rainbow: they differ in
\* nothing but the test that selects them
PlainBranch(S0, pos1, pos2) ==
  IF findMatches(S0.board) = <<>> THEN
    Finish([S0 EXCEPT !.board = SwapCells(S0.board, pos1.r, pos1.c, pos2.r, pos2.c),
                      !.frames = @ \o << InvalidFrame(pos1, pos2),
                                         BoardFrame(SwapCells(S0.board, pos1.r, pos1.c,
                                                              pos2.r, pos2.c), <<>>) >>])
  ELSE processMatches(S0, "plain")

\* swap when a single special cell is resolved like a wildcard
SwapBranchesTrigger(S0, gem1, gem2, pos1, pos2) ==
  IF isSpecial(gem1) /\ isSpecial(gem2)
  THEN ComboBranch(S0, ComboRemoval(S0.board, gem1, gem2, pos1, pos2))
  ELSE IF isSpecial(gem1) \/ isSpecial(gem2)
  THEN RainbowBranch(S0, RainbowRemoval(S0.board, gem1, gem2, pos1, pos2))
  ELSE PlainBranch(S0, pos1, pos2)

\* swap after the guard: gem1 and gem2 are the cells at pos1 and pos2 before
\* the exchange, S0 the state after it
SwapBranches(S0, gem1, gem2, pos1, pos2) ==
  IF isSpecial(gem1) /\ isSpecial(gem2)
  THEN ComboBranch(S0, ComboRemoval(S0.board, gem1, gem2, pos1, pos2))
  ELSE IF gem1.special = RAINBOW \/ gem2.special = RAINBOW
  THEN RainbowBranch(S0, RainbowRemoval(S0.board, gem1, gem2, pos1, pos2))
  ELSE PlainBranch(S0, pos1, pos2)

Swapped(S, pos1, pos2, after) ==
  [S EXCEPT !.board = after,
            !.lastSwapPos = [r1 |-> pos1.r, c1 |-> pos1.c, r2 |-> pos2.r, c2 |-> pos2.c],
            !.frames = << SwapFrame(after) >>,
            !.pointsEarned = 0,
            !.moveValid = FALSE]

\* swap when lastSwapPos is recorded before the guard
SwapCallRecordFirst(S, pos1, pos2) ==
  IF At(S.board, pos1.r, pos1.c) = Null \/ At(S.board, pos2.r, pos2.c) = Null
  THEN [S EXCEPT !.frames = <<>>, !.pointsEarned = 0, !.moveValid = FALSE,
                 !.lastSwapPos = [r1 |-> pos1.r, c1 |-> pos1.c, r2 |-> pos2.r, c2 |-> pos2.c]]
  ELSE SwapBranches(Swapped(S, pos1, pos2, SwapCells(S.board, pos1.r, pos1.c, pos2.r, pos2.c)),
                    S.board[pos1.r][pos1.c], S.board[pos2.r][pos2.c], pos1, pos2)

\* Engine.swap from its first statement to the point where it returns or
\* enters processMatches
SwapCall(S, pos1, pos2) ==
  IF At(S.board, pos1.r, pos1.c) = Null \/ At(S.board, pos2.r, pos2.c) = Null
  THEN [S EXCEPT !.frames = <<>>, !.pointsEarned = 0, !.moveValid = FALSE]
  ELSE SwapBranches(Swapped(S, pos1, pos2, SwapCells(S.board, pos1.r, pos1.c, pos2.r, pos2.c)),
                    S.board[pos1.r][pos1.c], S.board[pos2.r][pos2.c], pos1, pos2)

\* The state after one iteration of the while loop
AfterIteration(S, it) ==
  [S EXCEPT !.board = it.board, !.rng = it.rng,
            !.frames = @ \o it.frames,
            !.comboCount = @ + 1,
            !.cascadePoints = @ + it.points]

IterationDone(S1, it) == IF it.matches # <<>> THEN S1 ELSE AfterCascade(S1)

CascadeCall(S, it) == IterationDone(AfterIteration(S, it), it)

\* shuffleBoard from its first statement to its processMatches
Shuffled(S, sh) ==
  processMatches(
    [S EXCEPT !.board = sh.board, !.rng = sh.rng,
              !.frames = IF S.attempts < MAX_VISUAL_ATTEMPTS
                         THEN Append(@, ShuffleFrame(sh.board, S.attempts, sh.moves))
                         ELSE @],
    "shuffle")

Generated(g) == board' = g.board /\ rng' = g.rng

\* ------------------------------------------------------------------ actions
Init ==
  /\ board = createEmptyBoard
  /\ rng \in {RngSeed(s) : s \in Seeds}
  /\ gemTypes \in GemTypeChoices
  /\ lastSwapPos = NoSwap
  /\ pc = "idle"
  /\ frames = <<>>
  /\ pointsEarned = 0
  /\ moveValid = FALSE
  /\ caller = "plain"
  /\ attempts = 0
  /\ comboCount = 0
  /\ cascadePoints = 0
  /\ lastCall = "new"
  /\ args = << Pos(0, 0), Pos(0, 0) >>
  /\ pre = [board |-> createEmptyBoard, rng |-> rng, lastSwapPos |-> NoSwap]
  /\ swaps = 0
  /\ answer = NoAnswer
  /\ ui = PageLoaded

\* engine.init()
InitBoard ==
  /\ pc = "idle" /\ lastCall = "new"
  /\ Generated(GenerateBoard(gemTypes, rng))
  /\ lastCall' = "init"
  /\ UNCHANGED << gemTypes, lastSwapPos, pc, frames, pointsEarned, moveValid, caller,
                  attempts, comboCount, cascadePoints, args, pre, swaps, answer, ui >>

\* engine.setBoard(b)
SetBoard(b) ==
  /\ pc = "idle" /\ lastCall = "new"
  /\ board' = b
  /\ lastCall' = "setBoard"
  /\ UNCHANGED << rng, gemTypes, lastSwapPos, pc, frames, pointsEarned, moveValid, caller,
                  attempts, comboCount, cascadePoints, args, pre, swaps, answer, ui >>

\* engine.swap(pos1, pos2), up to its return or its first loop
Swap(pos1, pos2) ==
  /\ pc = "idle" /\ swaps < MaxSwaps
  /\ Install(SwapCall(Current, pos1, pos2))
  /\ lastCall' = "swap"
  /\ args' = << pos1, pos2 >>
  /\ pre' = [board |-> board, rng |-> rng, lastSwapPos |-> lastSwapPos]
  /\ swaps' = swaps + 1
  /\ UNCHANGED << gemTypes, answer, ui >>

\* One iteration of the while loop of processMatches and, when it was the
\* last, what the caller does next
CascadeStep ==
  /\ pc = "cascade" /\ comboCount < MaxCombo
  /\ Install(CascadeCall(Current,
               CascadeIteration(board, rng, gemTypes, lastSwapPos, comboCount + 1,
                                findMatches(board))))
  /\ UNCHANGED << gemTypes, lastCall, args, pre, swaps, answer, ui >>

\* One call of shuffleBoard up to its processMatches
ShuffleStep ==
  /\ pc = "shuffle"
  /\ Install(Shuffled(Current, ShufflePermute(board, rng)))
  /\ UNCHANGED << gemTypes, lastCall, args, pre, swaps, answer, ui >>

Next ==
  \/ InitBoard
  \/ \E b \in Fixtures : SetBoard(b)
  \/ \E io \in SwapInputs : Swap(io[1], io[2])
  \/ CascadeStep
  \/ ShuffleStep

Spec == Init /\ [][Next]_vars

\* A call of one of the two read-only helpers with the result `scan` of its
\* loop: the board is the one the loop left
Queried(name, scan) ==
  /\ board' = scan.board
  /\ answer' = [has |-> scan.move # NoSwap,
                move |-> IF name = "findValidMove" THEN scan.move ELSE NoSwap]
  /\ lastCall' = name
  /\ pre' = [board |-> board, rng |-> rng, lastSwapPos |-> lastSwapPos]
  /\ UNCHANGED << rng, gemTypes, lastSwapPos, pc, frames, pointsEarned, moveValid, caller,
                  attempts, comboCount, cascadePoints, args, swaps, ui >>

\* engine.hasValidMoves()
HasValidMovesCall == pc = "idle" /\ Queried("hasValidMoves", ScanBoard(board))

\* engine.findValidMove()
FindValidMoveCall == pc = "idle" /\ Queried("findValidMove", ScanBoard(board))

\* The engine under construction, board set-up and the two helpers
QueryNext ==
  \/ InitBoard
  \/ \E b \in Fixtures : SetBoard(b)
  \/ HasValidMovesCall
  \/ FindValidMoveCall

QuerySpec == Init /\ [][QueryNext]_vars

\* The engine's variables: the page actions leave them alone, the engine
\* being kept in `ui` as far as the page is concerned
engineVars == << board, rng, gemTypes, lastSwapPos, pc, frames, pointsEarned, moveValid,
                 caller, attempts, comboCount, cascadePoints, lastCall, args, pre, swaps,
                 answer >>

\* A click on a second cell (pointerup, which calls trySwap)
ClickSwap(res) ==
  /\ ui.tries < MaxAttempts
  /\ ui' = trySwap(ui, res)
  /\ UNCHANGED engineVars

\* A drag across a cell border (pointermove)
DragSwap(res) ==
  /\ ui.tries < MaxAttempts
  /\ ui' = dragSwap(ui, res)
  /\ UNCHANGED engineVars

\* The timer of a sleep in playFrames fires. A call made after a click on
\* New Game sleeps 200 ms after its first frame, so it wakes after the 100 ms
\* timer of that click has fired.
Wake(p) ==
  /\ p \in ui.playing
  /\ \A t \in ui.timers : p.token < t
  /\ ui' = wake(ui, p)
  /\ UNCHANGED engineVars

\* A click on New Game
NewGameClick ==
  /\ ui.clicks < MaxClicks
  /\ ui' = newGameClick(ui)
  /\ UNCHANGED engineVars

\* The timer set by a click on New Game during a playback fires, the
\* oldest first
StartNewGameTimer ==
  /\ ui.timers # {}
  /\ ui' = startNewGame([ui EXCEPT !.timers = @ \ {CHOOSE t \in @ : \A x \in @ : t <= x}])
  /\ UNCHANGED engineVars

\* A pointer goes down on a cell
PointerDown(id, cell) ==
  /\ Len(ui.log) < MaxEvents
  /\ ui' = Handled(ui, pointerdown(ui, id, cell), "down", id, cell)
  /\ UNCHANGED engineVars

\* A pointer that is down moves further than dragThreshold
PointerMove(id, dir, res) ==
  /\ Len(ui.log) < MaxEvents
  /\ ui' = Handled(ui, pointermove(ui, id, dir, res), "move", id, NoPos)
  /\ UNCHANGED engineVars

\* A pointer goes up
PointerUp(id, res) ==
  /\ Len(ui.log) < MaxEvents
  /\ ui' = Handled(ui, pointerup(ui, id, res), "up", id, NoPos)
  /\ UNCHANGED engineVars

\* The browser cancels a pointer
PointerCancel(id) ==
  /\ Len(ui.log) < MaxEvents
  /\ ui' = Handled(ui, pointercancel(ui, id), "cancel", id, NoPos)
  /\ UNCHANGED engineVars

\* The calls in flight: every token set by a swap attempt
Playbacks ==
  [token : 1 .. (MaxAttempts + MaxClicks + MaxEvents), game : 0 .. MaxClicks, points : {0, 30},
   left : UNION {{SubSeq(r.frames, i, Len(r.frames)) : i \in 2 .. (Len(r.frames) + 1)} :
                 r \in SwapResults}]

UiNext ==
  \/ \E res \in SwapResults : ClickSwap(res)
  \/ \E res \in SwapResults : DragSwap(res)
  \/ \E p \in Playbacks : Wake(p)
  \/ NewGameClick
  \/ StartNewGameTimer

UiSpec == Init /\ [][UiNext]_vars

\* The page under pointer events
PointerNext ==
  \/ \E id \in PointerIds, cell \in PageCells : PointerDown(id, cell)
  \/ \E id \in PointerIds, dir \in Directions, res \in SwapResults :
       PointerMove(id, dir, res)
  \/ \E id \in PointerIds, res \in SwapResults : PointerUp(id, res)
  \/ \E id \in PointerIds : PointerCancel(id)
  \/ \E p \in Playbacks : Wake(p)

PointerSpec == Init /\ [][PointerNext]_vars

\* The engine runs a call to its end: a step that can be taken is taken
FairSpec == Spec /\ WF_vars(CascadeStep) /\ WF_vars(ShuffleStep)

\* ------------------------------------------------------------------ properties
FullyOccupied(b) == \A r \in RowIdx, c \in ColIdx : b[r][c] # Null

\* The last call was a swap and it has returned
Returned == lastCall = "swap" /\ pc = "idle"

FrameKinds == [i \in DOMAIN frames |-> frames[i].kind]

\* The cells at the two positions given to the last swap, before the call
PreCell1 == At(pre.board, args[1].r, args[1].c)
PreCell2 == At(pre.board, args[2].r, args[2].c)

\* The board of the last swap call after the exchange of the two cells
SwappedPre == SwapCells(pre.board, args[1].r, args[1].c, args[2].r, args[2].c)

\* C1: after a call to swap on a fully occupied board without runs has
\* returned, the engine's board contains no run of three or more equal-typed
\* cells (findMatches returns no group), whichever path the call took.
C1_NoRunAfterSwap ==
  (Returned /\ FullyOccupied(pre.board) /\ findMatches(pre.board) = <<>>)
    => findMatches(board) = <<>>

\* C2: every call to swap terminates for every sequence of refill values.
\* An iteration of the cascade loop after the first that comes back to the
\* head of the loop with the board it started from repeats for ever under the
\* same refill values, so a terminating loop never takes such an iteration.
C2_CascadeProgress ==
  [][(pc = "cascade" /\ comboCount >= 1 /\ pc' = "cascade") => board' # board]_vars

\* The last call was an invalid swap: both positions hold cells, the pair is
\* not special + special, holds no wildcard, and the exchange makes no match
InvalidSwap ==
  /\ lastCall = "swap"
  /\ PreCell1 # Null /\ PreCell2 # Null
  /\ ~(isSpecial(PreCell1) /\ isSpecial(PreCell2))
  /\ ~isRainbow(PreCell1) /\ ~isRainbow(PreCell2)
  /\ findMatches(SwappedPre) = <<>>

InertSwap == lastCall = "swap" /\ (PreCell1 = Null \/ PreCell2 = Null)

\* C5: a swap with a position out of bounds or on an empty slot returns
\* moveValid = false, pointsEarned = 0 and no frame, and leaves the board, the
\* RNG state and lastSwapPos unchanged.
C5_InertSwap ==
  InertSwap =>
    /\ pc = "idle"
    /\ moveValid = FALSE
    /\ pointsEarned = 0
    /\ frames = <<>>
    /\ board = pre.board
    /\ rng = pre.rng
    /\ lastSwapPos = pre.lastSwapPos

\* A swap with a position outside a fully occupied board has returned
C5_Witness ==
  /\ InertSwap
  /\ FullyOccupied(pre.board)
  /\ (~InBounds(args[1].r, args[1].c) \/ ~InBounds(args[2].r, args[2].c))

\* C6: a swap of two adjacent cells of a fully occupied board that has no
\* legal move returns a shuffle frame and leaves a board with a legal move.
C6_DeadlockRecovery ==
  (/\ Returned
   /\ FullyOccupied(pre.board)
   /\ ~hasValidMoves(pre.board)
   /\ InBounds(args[1].r, args[1].c) /\ InBounds(args[2].r, args[2].c)
   /\ Adjacent(args[1], args[2]))
    => /\ \E i \in DOMAIN frames : frames[i].kind = "shuffle"
       /\ hasValidMoves(board)

\* C7: after a swap that returned moveValid = true the board has a legal move.
C7_LegalMoveAfterValidSwap == (Returned /\ moveValid) => hasValidMoves(board)

\* The cell at p lies in a horizontal or vertical run of three or more
\* equal-typed cells of the board b
InRun(b, p) ==
  /\ b[p.r][p.c] # Null
  /\ \/ \E c0 \in (p.c - 2) .. p.c :
          \A k \in 0 .. 2 : At(b, p.r, c0 + k).type = b[p.r][p.c].type
     \/ \E r0 \in (p.r - 2) .. p.r :
          \A k \in 0 .. 2 : At(b, r0 + k, p.c).type = b[p.r][p.c].type

RunCells(b) == {p \in BoardPositions : InRun(b, p)}

\* The run cells of p's type joined to p by steps between adjacent cells
Component(b, p) ==
  LET RECURSIVE grow(_)
      grow(S) ==
        LET T == S \cup {q \in RunCells(b) :
                           /\ b[q.r][q.c].type = b[p.r][p.c].type
                           /\ \E x \in S : Adjacent(x, q)}
        IN  IF T = S THEN S ELSE grow(T)
  IN  grow({p})

\* The groups ms partition the run cells of b into its components
PartitionsRuns(b, ms) ==
  /\ UNION {SetOfPositions(ms[i]) : i \in DOMAIN ms} = RunCells(b)
  /\ \A i \in DOMAIN ms :
       /\ ms[i].positions # <<>>
       /\ SetOfPositions(ms[i]) = Component(b, ms[i].positions[1])
       /\ \A p \in SetOfPositions(ms[i]) : b[p.r][p.c].type = ms[i].type
       /\ ms[i].effectiveLen = Len(ms[i].positions)
       /\ ms[i].effectiveLen = Cardinality(SetOfPositions(ms[i]))
  /\ \A i, j \in DOMAIN ms :
       i # j => SetOfPositions(ms[i]) \cap SetOfPositions(ms[j]) = {}

\* The boards of the state: the engine's board and the boards of the frames
BoardsSeen ==
  {board} \cup {frames[i].board : i \in {j \in DOMAIN frames : frames[j].kind # "remove"
                                                                /\ frames[j].kind # "invalid"}}

\* C8: the groups of findMatches partition exactly the cells that lie in a
\* run of three or more equal-typed cells; each group is a maximal connected
\* set of such cells of one type, its effectiveLen is its number of
\* positions, and touching runs of one type form one group.
C8_GroupsPartitionRuns == \A b \in BoardsSeen : PartitionsRuns(b, findMatches(b))

\* Two stacked runs of three are reported as one group of six
C8_Witness ==
  \E i \in DOMAIN findMatches(board) :
    /\ findMatches(board)[i].effectiveLen = 6
    /\ ~findMatches(board)[i].isComplex
    /\ Cardinality({p.r : p \in SetOfPositions(findMatches(board)[i])}) = 2

\* All positions of the group lie in one row or in one column
InOneRow(m) == \A i \in DOMAIN m.positions : m.positions[i].r = m.positions[1].r
InOneCol(m) == \A i \in DOMAIN m.positions : m.positions[i].c = m.positions[1].c

\* The special a group is to create by its size and shape, Null for none
ExpectedSpecial(m) ==
  IF Len(m.positions) >= 6 THEN W(m.type)
  ELSE IF Len(m.positions) = 5 /\ ~InOneRow(m) /\ ~InOneCol(m) THEN B(m.type)
  ELSE IF Len(m.positions) = 5 THEN (IF InOneRow(m) THEN H(m.type) ELSE V(m.type))
  ELSE IF Len(m.positions) = 4 THEN B(m.type)
  ELSE Null

\* In the board frame bf pushed after the removal, the positions of the
\* group m hold the expected special at one new special position and are
\* empty elsewhere
CreatedAsExpected(m, bf) ==
  /\ bf.kind = "board"
  /\ (Len(m.positions) = 5 => (m.isComplex <=> (~InOneRow(m) /\ ~InOneCol(m))))
  /\ IF ExpectedSpecial(m) = Null
     THEN \A p \in SetOfPositions(m) : bf.board[p.r][p.c] = Null
     ELSE \E p \in SetOfPositions(m) :
            /\ bf.board[p.r][p.c] = ExpectedSpecial(m)
            /\ \E k \in DOMAIN bf.newSpecials : bf.newSpecials[k] = p
            /\ \A q \in SetOfPositions(m) \ {p} : bf.board[q.r][q.c] = Null

WildcardPlainSwap ==
  /\ lastCall = "swap"
  /\ PreCell1 # Null /\ PreCell2 # Null
  /\ \/ (isRainbow(PreCell1) /\ PreCell2.special = NONE)
     \/ (isRainbow(PreCell2) /\ PreCell1.special = NONE)

\* The position of the wildcard after the exchange
WildcardPos == IF isRainbow(PreCell1) THEN args[2] ELSE args[1]

C11_OnlySwappedColour ==
  (WildcardPlainSwap /\ PreCell1.type # PreCell2.type) =>
    /\ Len(frames) >= 2
    /\ frames[2].kind = "remove"
    /\ \A p \in BoardPositions :
         LET cell == SwappedPre[p.r][p.c]
             wild == IF isRainbow(PreCell1) THEN PreCell1 ELSE PreCell2
             plain == IF isRainbow(PreCell1) THEN PreCell2 ELSE PreCell1
         IN  /\ (cell # Null /\ cell.type = plain.type)
                   => p \in SetToSet(frames[2].positions)
             /\ (cell # Null /\ cell.type = wild.type /\ p # WildcardPos)
                   => p \notin SetToSet(frames[2].positions)

\* The special a group creates by the README's rules, Null for none: a
\* wildcard for 6 or more cells or an L or T shape, a line for 5, a bomb for 4
ReadmeSpecial(m) ==
  IF Len(m.positions) >= 6 \/ (~InOneRow(m) /\ ~InOneCol(m)) THEN W(m.type)
  ELSE IF Len(m.positions) = 5 THEN (IF InOneRow(m) THEN H(m.type) ELSE V(m.type))
  ELSE IF Len(m.positions) = 4 THEN B(m.type)
  ELSE Null

\* In the board frame bf the positions of the group m hold the special
\* `expected` at one new special position and are empty elsewhere
CreatedAs(m, bf, expected) ==
  /\ bf.kind = "board"
  /\ IF expected = Null
     THEN \A p \in SetOfPositions(m) : bf.board[p.r][p.c] = Null
     ELSE \E p \in SetOfPositions(m) :
            /\ bf.board[p.r][p.c] = expected
            /\ \E k \in DOMAIN bf.newSpecials : bf.newSpecials[k] = p
            /\ \A q \in SetOfPositions(m) \ {p} : bf.board[q.r][q.c] = Null

\* C12: in every iteration of the cascade loop a match of 4 creates a bomb,
\* a match of 5 a line, and a match of 6 or more cells or any L- or T-shaped
\* match a wildcard.
C12_ReadmeSpecialRules ==
  [][(pc = "cascade" /\ frames' # frames) =>
       \A i \in DOMAIN findMatches(board) :
         CreatedAs(findMatches(board)[i], frames'[Len(frames) + 2],
                   ReadmeSpecial(findMatches(board)[i]))]_vars

\* One run of the chain expansion: the board b, the removal set it started
\* from, the positions marked as processed beforehand, and its result
ChainRun(b, seed, processed0, act) ==
  [b |-> b, seed |-> seed, processed0 |-> processed0, act |-> act]

CascadeChain(b, seed) ==
  ChainRun(b, seed, {}, activateSpecialsInRemovalSet(b, seed, EmptyMap, <<>>, {}))

ComboChain(b, rem) ==
  ChainRun(b, rem.toRemove, {},
           activateSpecialsInRemovalSet(b, rem.toRemove, rem.anims, rem.effects, {}))

RainbowChain(b, rem) ==
  ChainRun(b, rem.toRemove, {rem.rainbowKey},
           activateSpecialsInRemovalSet(b, rem.toRemove, rem.anims, <<>>, {rem.rainbowKey}))

\* The chain expansions the state shows: the one of the last swap's special
\* branch, and the one the next iteration of the cascade loop will run
ChainRuns ==
  (IF pc = "cascade"
   THEN {CascadeChain(board, SetAddAll(<<>>, PendingPositions(findMatches(board))))}
   ELSE {})
  \cup
  (IF lastCall = "swap" /\ isSpecial(PreCell1) /\ isSpecial(PreCell2)
   THEN {ComboChain(SwappedPre, ComboRemoval(SwappedPre, PreCell1, PreCell2, args[1], args[2]))}
   ELSE {})
  \cup
  (IF WildcardPlainSwap
   THEN {RainbowChain(SwappedPre,
                      RainbowRemoval(SwappedPre, PreCell1, PreCell2, args[1], args[2]))}
   ELSE {})

\* The positions a run activated
Activated(run) == run.act.processed \ run.processed0

\* The bonus of activating a cell
SpecialBonus(cell) ==
  IF cell.special = BOMB THEN BombBonus
  ELSE IF cell.special = LINE THEN LineBonus
  ELSE IF cell.special = RAINBOW THEN RainbowBonus
  ELSE 0

\* The sum of the bonuses of the cells of b at the positions S
BonusOfCells(b, S) ==
  LET RECURSIVE sum(_)
      sum(T) == IF T = {} THEN 0
                ELSE LET q == CHOOSE x \in T : TRUE
                     IN  SpecialBonus(b[q.r][q.c]) + sum(T \ {q})
  IN  sum(S)

\* The cells the special at p clears
EffectCells(b, p) ==
  IF b[p.r][p.c].special = BOMB THEN SetToSet(Square(p.r, p.c, 1))
  ELSE IF b[p.r][p.c].special = LINE THEN
    (IF b[p.r][p.c].direction \in {"horizontal", "none", "cross"}
     THEN SetToSet(RowCells(p.r)) ELSE {})
    \cup (IF b[p.r][p.c].direction \in {"vertical", "cross"}
          THEN SetToSet(ColCells(p.c)) ELSE {})
  ELSE IF b[p.r][p.c].special = RAINBOW THEN
    {q \in BoardPositions : b[q.r][q.c] # Null /\ b[q.r][q.c].type = b[p.r][p.c].type}
  ELSE {}

ActivatedOnce(run) ==
  /\ run.act.chainCount = Cardinality(Activated(run))
  /\ run.act.bonusPoints = BonusOfCells(run.b, Activated(run))
  /\ \A p \in Activated(run) :
       isSpecial(run.b[p.r][p.c]) /\ p \in SetToSet(run.act.toRemove)

\* C13: in one chain expansion every special cell is activated at most once:
\* the number of activations is the number of activated positions, and the
\* bonus is 150 per activated bomb, 200 per line and 500 per wildcard, each
\* position counted once.
C13_ActivatedOnce == \A run \in ChainRuns : ActivatedOnce(run)

\* A chain expansion activated a special that lies in the cleared cells of
\* two other activated specials
C13_Witness ==
  \E run \in ChainRuns : \E p, q1, q2 \in Activated(run) :
    /\ p # q1 /\ p # q2 /\ q1 # q2
    /\ p \in EffectCells(run.b, q1)
    /\ p \in EffectCells(run.b, q2)

\* The removal set of the run holds the cells every special in it clears
Closed(run) ==
  \A p \in SetToSet(run.act.toRemove) :
    isSpecial(run.b[p.r][p.c]) => EffectCells(run.b, p) \subseteq SetToSet(run.act.toRemove)

\* Every special in the removal set of the run had its effect applied
Triggered(run) ==
  \A p \in SetToSet(run.act.toRemove) :
    isSpecial(run.b[p.r][p.c]) => p \in run.act.processed

\* C14: when the chain expansion returns, every special cell in the removal
\* set has been triggered and the set holds the cells it clears: the 3x3
\* around a bomb, the row or column of a line, every cell of a wildcard's type.
C14_EverySpecialTriggered == \A run \in ChainRuns : Closed(run) /\ Triggered(run)

\* The chain expansion the next iteration of the cascade loop runs
CascadeRun == CascadeChain(board, SetAddAll(<<>>, PendingPositions(findMatches(board))))

\* The bonus of one match group: (size - 3)^2 x 20 above three cells, and
\* the bonus of the special it creates
GroupBonus(m) ==
  (IF Len(m.positions) > 3 THEN (Len(m.positions) - 3) * (Len(m.positions) - 3) * 20 ELSE 0)
  + (IF Len(m.positions) >= 6 THEN 200
     ELSE IF Len(m.positions) = 5 /\ ~InOneRow(m) /\ ~InOneCol(m) THEN 150
     ELSE IF Len(m.positions) = 5 THEN 100
     ELSE IF Len(m.positions) = 4 THEN 50
     ELSE 0)

\* The remove frame f of iteration number combo on the groups ms with the
\* chain bonus `chain` carries the specified score
ScoredAsSpecified(f, ms, chain, combo) ==
  /\ f.kind = "remove"
  /\ f.score.breakdown.base = 10 * Len(f.positions)
  /\ f.score.breakdown.base = 10 * Cardinality(SetToSet(f.positions))
  /\ f.score.breakdown.matchBonus = SumSeq([i \in DOMAIN ms |-> GroupBonus(ms[i])]) + chain
  /\ f.score.breakdown.comboMultiplierX2 = combo + 1
  /\ f.score.points =
       ((f.score.breakdown.base + f.score.breakdown.matchBonus) * (combo + 1)) \div 2

\* C15: every remove frame of the cascade loop carries base = 10 x the number
\* of positions removed, matchBonus = the sum over the groups of the length
\* bonus and the special-creation bonus plus the chain bonus, and points =
\* floor((base + matchBonus) x comboMultiplier).
C15_RemoveFrameScore ==
  [][(pc = "cascade" /\ frames' # frames) =>
       ScoredAsSpecified(frames'[Len(frames) + 1], findMatches(board),
                         BonusOfCells(board, Activated(CascadeRun)), comboCount + 1)]_vars

\* A second or later iteration removed a group of more than three cells and
\* activated a special
C15_Witness ==
  \E i \in DOMAIN frames :
    /\ frames[i].kind = "remove"
    /\ frames[i].score.combo >= 2
    /\ frames[i].effects # <<>>
    /\ frames[i].score.breakdown.matchBonus > 150

RemoveIdx == {i \in DOMAIN frames : frames[i].kind = "remove"}

\* The remove frame i was pushed by a special branch of swap, not by the
\* cascade loop
BranchFrame(i) ==
  i = 2 /\ ((isSpecial(PreCell1) /\ isSpecial(PreCell2)) \/ WildcardPlainSwap)

\* j is the remove frame that follows the remove frame i
NextRemove(i, j) ==
  i < j /\ \A k \in RemoveIdx : ~(i < k /\ k < j)

\* The remove frames i < j belong to one run of the cascade loop
SameCascade(i, j) ==
  /\ ~BranchFrame(i)
  /\ \A k \in DOMAIN frames : (i < k /\ k < j) => frames[k].kind # "shuffle"

\* C16: every remove frame has comboMultiplier = 1 + (combo - 1) x 0.5; within
\* one cascade the first remove frame has combo 1 and each following one has
\* the combo of the one before plus 1, hence a strictly greater multiplier.
C16_ComboCounts ==
  \A j \in RemoveIdx :
    /\ frames[j].score.breakdown.comboMultiplierX2 = frames[j].score.combo + 1
    /\ IF \E i \in RemoveIdx : NextRemove(i, j) /\ SameCascade(i, j)
       THEN \A i \in RemoveIdx :
              NextRemove(i, j) =>
                /\ frames[j].score.combo = frames[i].score.combo + 1
                /\ frames[j].score.breakdown.comboMultiplierX2
                     > frames[i].score.breakdown.comboMultiplierX2
       ELSE frames[j].score.combo = 1

\* A swap on a board of several types returned after a cascade of three or
\* more removals
C16_Witness ==
  /\ Returned /\ gemTypes = GemTypes
  /\ \E j \in RemoveIdx : frames[j].score.combo >= 3

\* C17: the board installed by init() has every slot occupied by a plain
\* cell with type in [0, gemTypes) and holds no run of three or more equal
\* types, whatever gemTypes and the seed are.
C17_InitBoardMatchFree ==
  lastCall = "init" =>
    /\ \A p \in BoardPositions :
         /\ board[p.r][p.c] # Null
         /\ board[p.r][p.c].special = NONE
         /\ board[p.r][p.c].type \in 0 .. (gemTypes - 1)
    /\ RunCells(board) = {}
    /\ findMatches(board) = <<>>

\* The frames that show the board outside the span from a removal to the
\* refill that follows it
SettledFrame(f) == f.kind \in {"swap", "fill", "preview", "shuffle"}

\* C18: when every slot is occupied before a swap call, every slot is
\* occupied when it returns; inside the call empty slots exist only between a
\* removal and the following refill: the board is full at every head of the
\* cascade loop, at every call of the shuffle and in every swap, fill,
\* preview and shuffle frame.
C18_SlotsStayOccupied ==
  (lastCall = "swap" /\ FullyOccupied(pre.board)) =>
    /\ FullyOccupied(board)
    /\ \A i \in DOMAIN frames : SettledFrame(frames[i]) => FullyOccupied(frames[i].board)

\* A swap on a full board has returned after a removal that emptied slots
\* and a shuffle
C18_Witness ==
  /\ Returned /\ FullyOccupied(pre.board)
  /\ \E i \in DOMAIN frames : frames[i].kind = "board" /\ ~FullyOccupied(frames[i].board)
  /\ \E i \in DOMAIN frames : frames[i].kind = "shuffle"

\* The number of cells of the board b equal to the cell x
CountCells(b, x) == Cardinality({p \in BoardPositions : b[p.r][p.c] = x})

\* Every special cell of the board `before` is on the board `after` at least
\* as many times, with its type, kind and direction
SpecialsKept(before, after) ==
  \A p \in BoardPositions :
    isSpecial(before[p.r][p.c]) =>
      CountCells(after, before[p.r][p.c]) >= CountCells(before, before[p.r][p.c])

\* The last permitted shuffle is followed at once by the regeneration
RegenerationStep ==
  /\ pc = "shuffle" /\ attempts = MAX_SHUFFLE_ATTEMPTS
  /\ pc' = "idle" /\ frames' # frames

\* C19: when the board is regenerated after the shuffles failed, every
\* special cell of the board before the regeneration is on the regenerated
\* board with its type, kind and direction.
C19_RegenerationKeepsSpecials ==
  [][RegenerationStep => SpecialsKept(ShufflePermute(board, rng).board, board')]_vars

\* The boards a and b hold the same multiset of cells (empty slots included)
SameCells(a, b) ==
  \A p \in BoardPositions :
    /\ CountCells(a, a[p.r][p.c]) = CountCells(b, a[p.r][p.c])
    /\ CountCells(a, b[p.r][p.c]) = CountCells(b, b[p.r][p.c])

\* The frame f is a shuffle frame that carries moves
ShuffleWithMoves(f) == f.kind = "shuffle" /\ f.moves # <<>>

\* The step is a shuffle that records its frame
RecordedShuffle ==
  /\ pc = "shuffle"
  /\ Len(frames') > Len(frames)
  /\ ShuffleWithMoves(frames'[Len(frames) + 1])

\* C20: a shuffle only permutes cells: the board of a shuffle frame that
\* carries moves holds the same multiset of cells (type, special, direction)
\* as the board immediately before that shuffle.
C20_ShufflePermutes ==
  [][RecordedShuffle => SameCells(board, frames'[Len(frames) + 1].board)]_vars

\* A swap recorded a shuffle that put a special cell in a slot that held
\* another cell on the board of the frame before it
C20_Witness ==
  /\ lastCall = "swap"
  /\ \E i \in DOMAIN frames :
       /\ i > 1
       /\ ShuffleWithMoves(frames[i])
       /\ "board" \in DOMAIN frames[i - 1]
       /\ \E p \in BoardPositions :
            /\ isSpecial(frames[i].board[p.r][p.c])
            /\ frames[i - 1].board[p.r][p.c] # frames[i].board[p.r][p.c]

\* The pairs of orthogonally adjacent cells, first cell above or left
AdjacentPairs(b) ==
  {[r1 |-> p.r, c1 |-> p.c, r2 |-> p.r, c2 |-> p.c + 1] :
     p \in {q \in BoardPositions :
              q.c < Cols - 1 /\ b[q.r][q.c] # Null /\ b[q.r][q.c + 1] # Null}}
  \cup
  {[r1 |-> p.r, c1 |-> p.c, r2 |-> p.r + 1, c2 |-> p.c] :
     p \in {q \in BoardPositions :
              q.r < Rows - 1 /\ b[q.r][q.c] # Null /\ b[q.r + 1][q.c] # Null}}

\* Both cells special, or one of them a wildcard
AlwaysEligible(b, m) ==
  \/ isSpecial(b[m.r1][m.c1]) /\ isSpecial(b[m.r2][m.c2])
  \/ isRainbow(b[m.r1][m.c1]) \/ isRainbow(b[m.r2][m.c2])

Eligible(b, m) ==
  AlwaysEligible(b, m) \/ findMatches(SwapCells(b, m.r1, m.c1, m.r2, m.c2)) # <<>>

\* m is tested before n: its first cell comes earlier in row-major order, or
\* they share it and m is the right-hand pair
ScannedBefore(m, n) ==
  \/ m.r1 * Cols + m.c1 < n.r1 * Cols + n.c1
  \/ m.r1 = n.r1 /\ m.c1 = n.c1 /\ m.r2 = m.r1 /\ n.r2 = n.r1 + 1

\* The pair m is what the scan of the board b returns
FirstEligible(b, m) ==
  /\ m \in AdjacentPairs(b)
  /\ Eligible(b, m)
  /\ \A n \in AdjacentPairs(b) : ScannedBefore(n, m) => ~Eligible(b, n)

\* What the claim asks of the answers has and m of the two scans of b
ScansAgree(b, has, m) ==
  /\ (\E n \in AdjacentPairs(b) : AlwaysEligible(b, n)) => has /\ m # NoSwap
  /\ m # NoSwap => FirstEligible(b, m)

\* C21: between calls, a board with two adjacent specials, or an adjacent
\* pair with a wildcard, has a valid move whether or not the exchange forms a
\* match, and findValidMove returns the first eligible pair of the row-major
\* scan, the right-hand neighbour tested before the lower one.
C21_SpecialPairsAreMoves ==
  pc = "idle" => ScansAgree(board, hasValidMoves(board), findValidMove(board))

\* The pair m is a pair of specials without a wildcard whose exchange forms
\* no match, and it is not the first pair tested
QuietSpecialPair(b, m) ==
  /\ m # NoSwap
  /\ isSpecial(b[m.r1][m.c1]) /\ isSpecial(b[m.r2][m.c2])
  /\ ~isRainbow(b[m.r1][m.c1]) /\ ~isRainbow(b[m.r2][m.c2])
  /\ m.r1 * Cols + m.c1 > 0
  /\ findMatches(SwapCells(b, m.r1, m.c1, m.r2, m.c2)) = <<>>

\* The move found on a settled board is such a pair
C21_Witness ==
  pc = "idle" /\ QuietSpecialPair(board, findValidMove(board))

\* The last call swapped a special cell that is no wildcard with a plain cell
OneSpecialSwap ==
  /\ lastCall = "swap"
  /\ PreCell1 # Null /\ PreCell2 # Null
  /\ isSpecial(PreCell1) # isSpecial(PreCell2)
  /\ ~isRainbow(PreCell1) /\ ~isRainbow(PreCell2)

\* The cells of the groups ms
MatchedPositions(ms) == SetToSet(PendingPositions(ms))

\* The frames of the call start as the standard cascade on the groups ms of
\* the exchanged board b does: no invalid frame, and the first removal is
\* that of the cascade; when no matched cell is special it removes the
\* matched cells and nothing else
StandardCascade(b, ms) ==
  /\ frames[1] = SwapFrame(b)
  /\ \A i \in DOMAIN frames : frames[i].kind # "invalid"
  /\ caller # "special"
  /\ Len(frames) >= 2 =>
       /\ frames[2].kind = "remove"
       /\ frames[2].score.combo = 1
       /\ MatchedPositions(ms) \subseteq SetToSet(frames[2].positions)
       /\ (\A p \in MatchedPositions(ms) : ~isSpecial(b[p.r][p.c])) =>
            /\ SetToSet(frames[2].positions) = MatchedPositions(ms)
            /\ frames[2].effects = <<>>
  /\ pc = "idle" => moveValid /\ pointsEarned > 0

\* C22: a swap of one special cell that is no wildcard with a plain cell is
\* resolved as a swap of two plain cells: without a match on the exchanged
\* board it is reverted with an invalid frame and moveValid = false; with a
\* match the standard cascade runs and the swap itself triggers no special.
C22_OneSpecialAsPlain ==
  OneSpecialSwap =>
    IF findMatches(SwappedPre) = <<>>
    THEN /\ pc = "idle" /\ moveValid = FALSE /\ pointsEarned = 0
         /\ frames = << SwapFrame(SwappedPre), InvalidFrame(args[1], args[2]),
                        BoardFrame(pre.board, <<>>) >>
         /\ board = pre.board
    ELSE StandardCascade(SwappedPre, findMatches(SwappedPre))

\* Such a swap made a match that holds no special and has returned: the
\* special it moved was not removed
C22_Witness ==
  /\ OneSpecialSwap /\ pc = "idle" /\ moveValid
  /\ \A p \in MatchedPositions(findMatches(SwappedPre)) : ~isSpecial(SwappedPre[p.r][p.c])
  /\ \E i \in 1 .. 2 : args[i] \notin SetToSet(frames[2].positions)
                          /\ isSpecial(SwappedPre[args[i].r][args[i].c])

\* The last call swapped two adjacent specials of the kinds k1 and k2, in
\* either order
ComboSwap(k1, k2) ==
  /\ lastCall = "swap"
  /\ PreCell1 # Null /\ PreCell2 # Null
  /\ Adjacent(args[1], args[2])
  /\ \/ PreCell1.special = k1 /\ PreCell2.special = k2
     \/ PreCell1.special = k2 /\ PreCell2.special = k1

\* No special other than the two swapped cells lies in the area
NoThirdSpecial(area) ==
  \A p \in area \ {args[1], args[2]} : ~isSpecial(pre.board[p.r][p.c])

\* The call opened with one removal whose positions are the occupied cells
\* of the area, each once, followed by the board without them
RemovedExactly(area) ==
  /\ Len(frames) >= 3
  /\ frames[2].kind = "remove"
  /\ frames[3].kind = "board"
  /\ SetToSet(frames[2].positions) = {p \in area : pre.board[p.r][p.c] # Null}
  /\ Len(frames[2].positions) = Cardinality(SetToSet(frames[2].positions))
  /\ \A p \in BoardPositions :
       frames[3].board[p.r][p.c] = IF p \in area THEN Null ELSE SwappedPre[p.r][p.c]

\* The cells of the board within n rows and n columns of p
SquareAround(p, n) ==
  {q \in BoardPositions : q.r - p.r \in -n .. n /\ q.c - p.c \in -n .. n}

\* C23: a swap of two adjacent bombs produces one removal whose positions
\* are the cells of the 5x5 square centred on the first swap position,
\* clipped to the board, when no other special lies in that square.
C23_BombBombSquare ==
  (ComboSwap(BOMB, BOMB) /\ NoThirdSpecial(SquareAround(args[1], 2)))
    => RemovedExactly(SquareAround(args[1], 2))

\* Two bombs were swapped where the square is clipped by the board and
\* leaves cells outside it
C23_Witness ==
  /\ ComboSwap(BOMB, BOMB) /\ NoThirdSpecial(SquareAround(args[1], 2))
  /\ FullyOccupied(pre.board)
  /\ Cardinality(SquareAround(args[1], 2)) < 25
  /\ SquareAround(args[1], 2) # BoardPositions

\* The cells of the row and of the column through p
CrossThrough(p) == {q \in BoardPositions : q.r = p.r \/ q.c = p.c}

\* C24: a swap of two adjacent lines clears the row and the column through
\* the first swap position: the removal's positions are the cells of that row
\* and that column when no third special lies on them, whatever the
\* directions of the two lines.
C24_LineLineCross ==
  (ComboSwap(LINE, LINE) /\ NoThirdSpecial(CrossThrough(args[1])))
    => RemovedExactly(CrossThrough(args[1]))

\* The rows (horizontal) or columns (vertical) within one of the position p
BandAround(p, direction) ==
  {q \in BoardPositions :
     IF direction = "vertical" THEN q.c - p.c \in -1 .. 1 ELSE q.r - p.r \in -1 .. 1}

\* The line of the last bomb + line swap, and the position the swap put it at
SwappedLine == IF PreCell1.special = LINE THEN PreCell1 ELSE PreCell2
SwappedLinePos == IF PreCell1.special = LINE THEN args[2] ELSE args[1]

\* C25: a swap of a bomb with an adjacent line clears a band three wide
\* along the line's direction: the removal's positions are the three rows
\* (horizontal line) or three columns (vertical line) centred on the line's
\* position after the swap, clipped to the board, when no other special lies
\* in the band.
C25_BombLineBand ==
  (ComboSwap(BOMB, LINE) /\ NoThirdSpecial(BandAround(SwappedLinePos, SwappedLine.direction)))
    => RemovedExactly(BandAround(SwappedLinePos, SwappedLine.direction))

\* The last call swapped two adjacent cells that make a special combo: two
\* specials, or a wildcard and a plain cell
SpecialComboSwap ==
  /\ lastCall = "swap"
  /\ PreCell1 # Null /\ PreCell2 # Null
  /\ Adjacent(args[1], args[2])
  /\ (isSpecial(PreCell1) /\ isSpecial(PreCell2)) \/ isRainbow(PreCell1) \/ isRainbow(PreCell2)

\* The kinds of the two swapped cells
ComboKinds == {PreCell1.special, PreCell2.special}

\* The flat base of the combo of the last swap
ComboFlat ==
  IF ComboKinds = {RAINBOW} THEN 1000
  ELSE IF ComboKinds = {RAINBOW, BOMB} THEN 2000
  ELSE IF ComboKinds = {RAINBOW, LINE} THEN 2500
  ELSE IF ComboKinds = {RAINBOW, NONE} THEN 500
  ELSE IF ComboKinds = {BOMB} THEN 1000
  ELSE IF ComboKinds = {LINE} THEN 800
  ELSE 1200

\* Its rate per cleared cell
ComboRate ==
  IF ComboKinds = {RAINBOW} THEN 15
  ELSE IF ComboKinds = {RAINBOW, BOMB} THEN 20
  ELSE IF ComboKinds = {RAINBOW, LINE} THEN 20
  ELSE IF ComboKinds = {RAINBOW, NONE} THEN 10
  ELSE IF ComboKinds = {BOMB} THEN 15
  ELSE IF ComboKinds = {LINE} THEN 12
  ELSE 15

\* The chain expansion of the last swap's special branch
ComboRuns ==
  IF isSpecial(PreCell1) /\ isSpecial(PreCell2)
  THEN {ComboChain(SwappedPre, ComboRemoval(SwappedPre, PreCell1, PreCell2, args[1], args[2]))}
  ELSE {RainbowChain(SwappedPre,
                     RainbowRemoval(SwappedPre, PreCell1, PreCell2, args[1], args[2]))}

\* C26: the removal of a special-combo swap scores the flat base of the
\* combo, plus its rate for every cell the removal clears (its positions),
\* plus the chain bonus.
C26_ComboPoints ==
  SpecialComboSwap =>
    /\ frames[2].kind = "remove"
    /\ \A run \in ComboRuns :
         frames[2].score.points =
           ComboFlat + ComboRate * Len(frames[2].positions) + run.act.bonusPoints

\* The last call was a swap on two occupied positions and it has returned
OccupiedSwapReturned == Returned /\ PreCell1 # Null /\ PreCell2 # Null

\* The frames hold a removal and no invalid frame
RemovedNotInvalid ==
  /\ \E i \in DOMAIN frames : frames[i].kind = "remove"
  /\ \A i \in DOMAIN frames : frames[i].kind # "invalid"

\* The last call swapped two plain cells and the exchange made a match
PlainMatchSwap ==
  /\ PreCell1.special = NONE /\ PreCell2.special = NONE
  /\ findMatches(SwappedPre) # <<>>

\* C27: for a swap on occupied positions moveValid is true exactly when
\* pointsEarned > 0 and exactly when the frames hold a remove frame and no
\* invalid frame; a swap of two plain cells that makes a match returns
\* moveValid = true with pointsEarned >= 30.
C27_MoveValidMeansPoints ==
  OccupiedSwapReturned =>
    /\ moveValid <=> pointsEarned > 0
    /\ moveValid <=> RemovedNotInvalid
    /\ PlainMatchSwap => moveValid /\ pointsEarned >= 30

\* A swap of two plain cells has returned with the least score of a match
C27_Witness ==
  OccupiedSwapReturned /\ PlainMatchSwap /\ moveValid /\ pointsEarned = 30

\* The last call was one of the two helpers
QueryReturned == lastCall \in {"hasValidMoves", "findValidMove"}

\* C28: hasValidMoves and findValidMove are read-only: isMoveValid exchanges
\* two cells on the live board to look for a match, and on return every slot
\* holds the cell it held before the call, and the RNG state and lastSwapPos
\* are unchanged.
C28_QueriesReadOnly ==
  QueryReturned =>
    /\ board = pre.board
    /\ rng = pre.rng
    /\ lastSwapPos = pre.lastSwapPos

\* findValidMove has returned a pair of plain cells of a full board, which
\* it found by exchanging them, after it exchanged other pairs in vain
C28_Witness ==
  /\ lastCall = "findValidMove"
  /\ FullyOccupied(board)
  /\ answer.move # NoSwap
  /\ ~isSpecial(board[answer.move.r1][answer.move.c1])
  /\ ~isSpecial(board[answer.move.r2][answer.move.c2])
  /\ answer.move.r1 * Cols + answer.move.c1 > 0

\* A trySwap call that has not been cancelled waits in playFrames
InFlight == \E p \in ui.playing : p.token = ui.runToken

\* The step is a swap attempt
SwapAttempt == ui'.tries = ui.tries + 1

\* C29: engine.swap is never called while isProcessing is true, and a swap
\* attempt, click or drag, that arrives while the frames of an earlier swap
\* that was not cancelled are played is refused: it changes neither the
\* engine nor the statistics.
C29_SingleFlight ==
  [][/\ ui.isProcessing => ui'.swapCalls = ui.swapCalls
     /\ InFlight => ui.isProcessing
     /\ (InFlight /\ SwapAttempt) =>
          /\ ui'.refused = ui.refused + 1
          /\ ui'.game = ui.game /\ ui'.swapCalls = ui.swapCalls
          /\ ui'.gamePoints = ui.gamePoints /\ ui'.gameMoves = ui.gameMoves
          /\ ui'.playing = ui.playing]_vars

\* A swap attempt was refused and the playback it ran into still has frames
\* to play
C29_Witness ==
  /\ ui.refused > 0
  /\ \E p \in ui.playing : p.token = ui.runToken /\ p.left # <<>>

\* C30: once startNewGame has reset the engine, no frame computed from the
\* board of an earlier game is drawn over the new board, and no points of a
\* swap on the board of an earlier game are counted in the statistics, for
\* every interleaving of clicks, timers and swap attempts.
C30_NoStaleGame ==
  /\ ui.screen = ui.game
  /\ ui.statsFrom \subseteq {ui.game}

\* The events i .. i + 3 are a click on the cell a and then a click on the
\* cell b: pointerdown and pointerup of one pointer, twice, the page being at
\* rest before the first
TwoClicks(lg, i, a, b) ==
  /\ i + 3 <= Len(lg)
  /\ lg[i].kind = "down" /\ lg[i].cell = a /\ lg[i].rest
  /\ lg[i + 1].kind = "up" /\ lg[i + 1].id = lg[i].id
  /\ lg[i + 2].kind = "down" /\ lg[i + 2].cell = b
  /\ lg[i + 3].kind = "up" /\ lg[i + 3].id = lg[i + 2].id

\* C31: from a page at rest with nothing selected, a click on a cell and then
\* a click on an orthogonally adjacent cell makes exactly one call of
\* engine.swap, with these two positions.
C31_TwoClicksSwap ==
  \A i \in 1 .. Len(ui.log) : \A a, b \in PageCells :
    (TwoClicks(ui.log, i, a, b) /\ isAdjacent(a, b)) =>
      /\ ui.log[i + 3].after = ui.log[i].before + 1
      /\ ui.swapArgs[ui.log[i + 3].after] = << a, b >>

\* The cells of the group m nearest to its centroid, the distances taken
\* times the size of the group
NearestCells(m) ==
  LET ps == SetOfPositions(m)
      n == Cardinality(ps)
      d(p) == (n * p.r - SumSeq([i \in DOMAIN m.positions |-> m.positions[i].r])) ^ 2
              + (n * p.c - SumSeq([i \in DOMAIN m.positions |-> m.positions[i].c])) ^ 2
  IN  {p \in ps : \A q \in ps : d(p) <= d(q)}

\* The first cell of the group m, in group order, among the nearest to its
\* centroid
CentroidCell(m) ==
  m.positions[CHOOSE i \in DOMAIN m.positions :
                /\ m.positions[i] \in NearestCells(m)
                /\ \A j \in 1 .. (i - 1) : m.positions[j] \notin NearestCells(m)]

\* The swapped positions of the running call that lie in the group m
SwappedCellsIn(m) == {p \in SetOfPositions(m) : p \in {args[1], args[2]}}

\* The running cascade was started by the player's swap of two plain cells
\* and is at its first step
FirstPlayerStep == caller = "plain" /\ comboCount = 0

\* Where the special of the group m is to be placed by the step about to run
InsertionCells(m) ==
  IF FirstPlayerStep /\ SwappedCellsIn(m) # {} THEN SwappedCellsIn(m)
  ELSE {CentroidCell(m)}

\* C32: the special of a group is placed on a swapped position of the group
\* in the first cascade step of a player's swap, and on the group cell
\* nearest the centroid, the first in group order, in every other step;
\* cascades after a special combo or a shuffle never use the swap positions.
C32_InsertionPosition ==
  [][(pc = "cascade" /\ frames' # frames) =>
       \A i \in DOMAIN findMatches(board) :
         Len(findMatches(board)[i].positions) >= 4 =>
           \E p \in InsertionCells(findMatches(board)[i]) :
             \E k \in DOMAIN frames'[Len(frames) + 2].newSpecials :
               frames'[Len(frames) + 2].newSpecials[k] = p]_vars

\* The frame after a remove frame is a board frame, and a fill frame comes
\* before the next remove frame
RemoveFollowed(fs, i) ==
  /\ i < Len(fs) /\ fs[i + 1].kind = "board"
  /\ \E j \in (i + 1) .. Len(fs) :
       /\ fs[j].kind = "fill"
       /\ \A k \in (i + 1) .. (j - 1) : fs[k].kind # "remove"

\* The frame after a preview frame is a remove frame that takes every
\* pending position
PreviewFollowed(fs, i) ==
  /\ i < Len(fs) /\ fs[i + 1].kind = "remove"
  /\ SetToSet(fs[i].pendingPositions) \subseteq SetToSet(fs[i + 1].positions)

FrameOrder(fs) ==
  /\ fs[1].kind = "swap"
  /\ \A i \in DOMAIN fs :
       /\ fs[i].kind = "remove" => RemoveFollowed(fs, i)
       /\ fs[i].kind = "drop" => (i > 1 /\ fs[i - 1].kind = "board")
       /\ fs[i].kind = "preview" => PreviewFollowed(fs, i)

\* C33: in every non-empty frame list returned by swap the first frame is a
\* swap frame, a remove frame is directly followed by a board frame and by
\* a fill frame before the next remove frame, a drop frame comes only
\* directly after a board frame, and a preview frame is directly followed
\* by a remove frame that takes all its pending positions.
C33_FrameOrdering == (Returned /\ frames # <<>>) => FrameOrder(frames)

\* A returned frame list with a drop frame, a preview frame and the remove
\* frame of the next cascade step
C33_Witness ==
  /\ Returned
  /\ \E i, j \in DOMAIN frames :
       /\ frames[i].kind = "drop"
       /\ frames[j].kind = "preview" /\ j > i
       /\ frames[j].pendingPositions # <<>>

\* The shuffle frames of fs that carry moves, and those pushed after a
\* regeneration, which carry none
MoveFrames(fs) == {i \in DOMAIN fs : fs[i].kind = "shuffle" /\ fs[i].moves # <<>>}

RegenFrames(fs) == {i \in DOMAIN fs : fs[i].kind = "shuffle" /\ fs[i].moves = <<>>}

\* Shuffle frames with moves only for the attempts 0, 1 and 2, each once;
\* at most one frame of a regeneration, with attempt 11
ShuffleFramesBounded(fs) ==
  /\ \A i \in MoveFrames(fs) : fs[i].attempt \in 0 .. 2
  /\ \A i, j \in MoveFrames(fs) : i < j => fs[i].attempt < fs[j].attempt
  /\ Cardinality(MoveFrames(fs)) <= 3
  /\ Cardinality(RegenFrames(fs)) <= 1
  /\ \A i \in RegenFrames(fs) : fs[i].attempt = 11 /\ i = Len(fs)

\* The step runs inside shuffleBoard
InShuffle == pc = "shuffle" \/ (pc = "cascade" /\ caller = "shuffle")

\* The board on which the step about to run ends its cascade, if it ends it
BoardLeft ==
  IF pc = "shuffle" THEN ShufflePermute(board, rng).board
  ELSE frames'[Len(frames') - 1].board

\* C34: within one swap call the board is shuffled at most 11 times, with
\* the attempt numbers 0 to 10 in turn; shuffle frames with moves are pushed
\* for the attempts 0, 1 and 2 only; the board is regenerated at most once,
\* only when attempt 10 has left no legal move, and one shuffle frame with
\* attempt 11 is pushed for it.
C34_ShuffleBounds ==
  [][/\ pc = "shuffle" => attempts \in 0 .. 10
     /\ pc' = "shuffle" => attempts' = (IF InShuffle THEN attempts + 1 ELSE 0)
     /\ ShuffleFramesBounded(frames')
     /\ (RegenFrames(frames') # {} /\ RegenFrames(frames) = {}) =>
          /\ InShuffle /\ attempts = 10 /\ pc' = "idle"
          /\ ~hasValidMoves(BoardLeft)]_vars

\* A call returned after three shuffle frames with moves and a regeneration
C34_Witness ==
  /\ Returned
  /\ Cardinality(MoveFrames(frames)) = 3
  /\ RegenFrames(frames) = {Len(frames)}

\* In no column of d an empty slot lies below an occupied one
Settled(d) ==
  \A c \in ColIdx : \A r1, r2 \in RowIdx :
    (r1 < r2 /\ d[r1][c] # Null) => d[r2][c] # Null

\* The occupied cells of the column c of b, from the top
ColumnCells(b, c) == SelectSeq([i \in 1 .. Rows |-> b[i - 1][c]], LAMBDA x : x # Null)

\* d holds in every column the cells of b, in the same order
SameColumns(b, d) == \A c \in ColIdx : ColumnCells(b, c) = ColumnCells(d, c)

\* The frame i of fs is the board frame pushed after a removal
AfterRemoval(fs, i) == i > 1 /\ fs[i].kind = "board" /\ fs[i - 1].kind = "remove"

\* C35: after dropGems no empty slot lies below an occupied one, every
\* column holds the same cells in the same order as before, and a drop
\* frame is pushed exactly when a cell changed its row: the frame after the
\* board frame of a removal is a drop frame with the settled board when
\* that board has a cell above an empty slot, and none otherwise.
C35_Gravity ==
  \A i \in DOMAIN frames :
    AfterRemoval(frames, i) =>
      /\ i < Len(frames)
      /\ IF Settled(frames[i].board)
         THEN /\ frames[i + 1].kind = "fill"
              /\ \A r \in RowIdx, c \in ColIdx :
                   frames[i].board[r][c] # Null =>
                     frames[i + 1].board[r][c] = frames[i].board[r][c]
         ELSE /\ frames[i + 1].kind = "drop"
              /\ Settled(frames[i + 1].board)
              /\ SameColumns(frames[i].board, frames[i + 1].board)

\* A call returned with a drop frame in which two cells of one column fell
\* by different distances, and with a removal after which nothing fell
C35_Witness ==
  /\ Returned
  /\ \E i \in DOMAIN frames :
       /\ AfterRemoval(frames, i) /\ frames[i + 1].kind = "drop"
       /\ \E c \in ColIdx : \E r1, r2, r3 \in RowIdx :
            /\ r1 < r2 /\ r2 < r3 /\ r3 < Rows - 1
            /\ frames[i].board[r1][c] # Null /\ frames[i].board[r2][c] = Null
            /\ frames[i].board[r3][c] # Null /\ frames[i].board[r3 + 1][c] = Null
  /\ \E j \in DOMAIN frames : AfterRemoval(frames, j) /\ frames[j + 1].kind = "fill"

\* The sum of score.points over the remove frames of fs
RemovePoints(fs) ==
  LET RECURSIVE go(_, _)
      go(i, acc) ==
        IF i > Len(fs) \/ acc < 0 THEN acc
        ELSE go(i + 1, IF fs[i].kind = "remove" THEN acc + fs[i].score.points ELSE acc)
  IN  go(1, 0)

\* C36: the pointsEarned returned by swap is the sum of score.points over
\* the remove frames of the returned frame list, the removals of cascades
\* after a special combo and after a shuffle included.
C36_PointsAreFramePoints == Returned => pointsEarned = RemovePoints(frames)

\* A call returned whose frames hold a removal with points after a shuffle
\* frame
C36_Witness ==
  /\ Returned
  /\ \E i, j \in DOMAIN frames :
       /\ i < j
       /\ frames[i].kind = "shuffle"
       /\ frames[j].kind = "remove" /\ frames[j].score.points > 0

\* The frames that carry a board
BoardBearing == {"swap", "board", "drop", "fill", "preview", "shuffle"}

\* The board a renderer holds after it has played the frames fs
LastBoard(fs) ==
  fs[CHOOSE i \in DOMAIN fs :
       /\ fs[i].kind \in BoardBearing
       /\ \A j \in DOMAIN fs : (j > i) => fs[j].kind \notin BoardBearing].board

\* C37: when swap returns a non-empty frame list, the board of the last
\* frame that carries one is the engine's board, also when shuffle attempts
\* numbered 3 or higher changed the board.
C37_FramesReplayBoard == (Returned /\ frames # <<>>) => LastBoard(frames) = board

\* The moves of the shuffle frame f slide the cells of the board b: each
\* entry takes the cell at `from` in b to `to` in the frame's board, no two
\* entries leave from or arrive at the same position
MovesSlide(b, f) ==
  /\ \A k \in DOMAIN f.moves :
       f.board[f.moves[k].to.r][f.moves[k].to.c] = b[f.moves[k].from.r][f.moves[k].from.c]
  /\ \A k, l \in DOMAIN f.moves :
       k # l => (f.moves[k].from # f.moves[l].from /\ f.moves[k].to # f.moves[l].to)

\* C38: in a shuffle frame every entry of moves is the slide of one cell:
\* the cell at `to` in the frame's board is the cell that was at `from`
\* before the shuffle, and the `from` positions are pairwise distinct, as
\* are the `to` positions.
C38_ShuffleMovesSlide ==
  [][(pc = "shuffle" /\ attempts < MAX_VISUAL_ATTEMPTS /\ frames' # frames) =>
       MovesSlide(board, frames'[Len(frames) + 1])]_vars

\* The helpers count the adjacent pair p, q as a legal move on the board b:
\* the scans test a pair from its left or upper cell
LegalPair(b, p, q) ==
  IF p.r < q.r \/ p.c < q.c
  THEN isMoveValid(b, p.r, p.c, q.r, q.c)
  ELSE isMoveValid(b, q.r, q.c, p.r, p.c)

\* The last call was a swap of the pair that findValidMove names
SwappedFoundMove ==
  /\ findValidMove(pre.board) # NoSwap
  /\ args[1] = Pos(findValidMove(pre.board).r1, findValidMove(pre.board).c1)
  /\ args[2] = Pos(findValidMove(pre.board).r2, findValidMove(pre.board).c2)

\* `has` and m are what hasValidMoves and findValidMove return on the board
\* b, `valid` the moveValid that swap of p and q returned on it
HelpersAgree(b, has, m, p, q, valid) ==
  /\ (m # NoSwap) <=> has
  /\ (p \in BoardPositions /\ q \in BoardPositions /\ Adjacent(p, q)) =>
       (valid <=> LegalPair(b, p, q))
  /\ (m # NoSwap /\ p = Pos(m.r1, m.c1) /\ q = Pos(m.r2, m.c2)) => valid

\* C39: on a fully occupied board findValidMove returns a move exactly when
\* hasValidMoves is true, and swap of an adjacent pair returns moveValid =
\* true exactly when the helpers count the pair as a legal move; the pair
\* that findValidMove returns yields moveValid = true.
C39_HelpersAgreeWithSwap ==
  (Returned /\ FullyOccupied(pre.board)) =>
    HelpersAgree(pre.board, hasValidMoves(pre.board), findValidMove(pre.board),
                 args[1], args[2], moveValid)

\* A swap of the pair named by findValidMove returned, and the pair holds a
\* special cell
C39_Witness ==
  /\ Returned /\ FullyOccupied(pre.board)
  /\ SwappedFoundMove
  /\ moveValid
  /\ args[1] \in BoardPositions
  /\ isSpecial(pre.board[args[1].r][args[1].c])

\* The positions of the group m listed in newSpecials of the board frame bf
NewIn(m, bf) == {p \in SetOfPositions(m) : \E k \in DOMAIN bf.newSpecials : bf.newSpecials[k] = p}

\* The group m has left what it is due in the board frame bf: one new
\* special of its type on one of its positions when it has 4 cells or more,
\* nothing when it has 3; the special is still in its column on the board
\* `filled` at the end of the step
GroupPlaced(m, bf, filled) ==
  IF Len(m.positions) >= 4
  THEN /\ Cardinality(NewIn(m, bf)) = 1
       /\ \A p \in NewIn(m, bf) :
            /\ isSpecial(bf.board[p.r][p.c])
            /\ bf.board[p.r][p.c].type = m.type
            /\ \E r \in RowIdx : filled[r][p.c] = bf.board[p.r][p.c]
  ELSE NewIn(m, bf) = {}

\* newSpecials of the board frame bf lists one position for each of the
\* groups ms of 4 cells or more, and none twice
ListsExactly(ms, bf) ==
  /\ Len(bf.newSpecials) = Cardinality({i \in DOMAIN ms : Len(ms[i].positions) >= 4})
  /\ \A k \in DOMAIN bf.newSpecials :
       \E i \in DOMAIN ms : Len(ms[i].positions) >= 4 /\ bf.newSpecials[k] \in NewIn(ms[i], bf)
  /\ \A k, l \in DOMAIN bf.newSpecials : k # l => bf.newSpecials[k] # bf.newSpecials[l]

\* The fill frame of the cascade step that pushed its remove frame at i
StepFill(fs, i) == IF fs[i + 2].kind = "fill" THEN fs[i + 2] ELSE fs[i + 3]

\* C40: in each cascade step no queued special is skipped: every group of 4
\* cells or more leaves exactly one new special, on one of its positions
\* and of its type, a group of 3 leaves none, newSpecials of the board frame
\* lists exactly these positions, and the new special is not taken by the
\* chain expansion of the step.
C40_NoSpecialSkipped ==
  [][(pc = "cascade" /\ frames' # frames) =>
       /\ \A i \in DOMAIN findMatches(board) :
            GroupPlaced(findMatches(board)[i], frames'[Len(frames) + 2],
                        StepFill(frames', Len(frames) + 1).board)
       /\ ListsExactly(findMatches(board), frames'[Len(frames) + 2])]_vars

\* A cascade step in which two groups left a special each while the chain
\* expansion of the step activated an older special
C40_Witness ==
  \E i \in DOMAIN frames :
    /\ i > 1
    /\ frames[i].kind = "board" /\ Len(frames[i].newSpecials) >= 2
    /\ frames[i - 1].kind = "remove" /\ frames[i - 1].subSteps # <<>>

====
